---------------------------- MODULE Spec2Model ----------------------------
(***************************************************************************)
(* A model of go-thumbnails: page extraction (PDF / TIFF / JPEG / PNG),    *)
(* the page fitter, the composite and uniform layouts and the error        *)
(* placeholder renderer.                                                   *)
(*                                                                         *)
(* Text (paths, extensions, error messages) is a sequence of one-character *)
(* strings, so that filepath.Ext, strings.ToLower and strings.Contains are *)
(* computed on the characters.  A bitmap is a record [nil, w, h, px] whose *)
(* px maps every point of its bounds to a pixel.                           *)
(***************************************************************************)
EXTENDS Integers, Sequences, FiniteSets, TLC

(***************************************************************************)
(* Bounds of the model.                                                    *)
(***************************************************************************)
MaxWidth == 6
MaxPages == 5
MaxSrcDim == 4
MaxFrags == 3
MaxHeightWidth == 128
MaxBadgeCount == 11

(***************************************************************************)
(* String literals of the source, as character sequences.                 *)
(***************************************************************************)
S_unsupported ==
    <<"u","n","s","u","p","p","o","r","t","e","d"," ","f","i","l","e"," ","f","o","r","m","a","t">>
S_colon ==
    <<":"," ">>
S_invalidPassword ==
    <<"i","n","v","a","l","i","d"," ","p","a","s","s","w","o","r","d">>
S_noSuchFile ==
    <<"n","o"," ","s","u","c","h"," ","f","i","l","e">>
S_notExist ==
    <<"n","o","t"," ","e","x","i","s","t">>
S_createRenderer ==
    <<"f","a","i","l","e","d"," ","t","o"," ","c","r","e","a","t","e"," ","P","D","F"," ","r","e","n","d","e","r","e","r",":"," ">>
S_initWasm ==
    <<"f","a","i","l","e","d"," ","t","o"," ","i","n","i","t","i","a","l","i","z","e"," ","P","D","F","i","u","m"," ","W","e","b","A","s","s","e","m","b","l","y",":"," ">>
S_getInstance ==
    <<"f","a","i","l","e","d"," ","t","o"," ","g","e","t"," ","P","D","F","i","u","m"," ","i","n","s","t","a","n","c","e",":"," ">>
S_renderPDFPages ==
    <<"f","a","i","l","e","d"," ","t","o"," ","r","e","n","d","e","r"," ","P","D","F"," ","p","a","g","e","s",":"," ">>
S_readPDF ==
    <<"u","n","a","b","l","e"," ","t","o"," ","r","e","a","d"," ","P","D","F"," ","f","i","l","e",":"," ">>
S_openPDF ==
    <<"u","n","a","b","l","e"," ","t","o"," ","o","p","e","n"," ","P","D","F"," ","d","o","c","u","m","e","n","t",":"," ">>
S_pageCount ==
    <<"u","n","a","b","l","e"," ","t","o"," ","g","e","t"," ","p","a","g","e"," ","c","o","u","n","t",":"," ">>
S_renderPage ==
    <<"u","n","a","b","l","e"," ","t","o"," ","r","e","n","d","e","r"," ","p","a","g","e"," ">>
S_pdfNoPages ==
    <<"P","D","F"," ","h","a","s"," ","n","o"," ","p","a","g","e","s">>
S_openTIFF ==
    <<"f","a","i","l","e","d"," ","t","o"," ","o","p","e","n"," ","T","I","F","F"," ","f","i","l","e",":"," ">>
S_decodeTIFF ==
    <<"f","a","i","l","e","d"," ","t","o"," ","d","e","c","o","d","e"," ","T","I","F","F",":"," ">>
S_tiffNoPages ==
    <<"T","I","F","F"," ","h","a","s"," ","n","o"," ","p","a","g","e","s">>
S_openImage ==
    <<"f","a","i","l","e","d"," ","t","o"," ","o","p","e","n"," ","i","m","a","g","e"," ","f","i","l","e",":"," ">>
S_decodeImage ==
    <<"f","a","i","l","e","d"," ","t","o"," ","d","e","c","o","d","e"," ","i","m","a","g","e",":"," ">>
S_createDir ==
    <<"f","a","i","l","e","d"," ","t","o"," ","c","r","e","a","t","e"," ","o","u","t","p","u","t"," ","d","i","r","e","c","t","o","r","y",":"," ">>
S_createFile ==
    <<"f","a","i","l","e","d"," ","t","o"," ","c","r","e","a","t","e"," ","o","u","t","p","u","t"," ","f","i","l","e",":"," ">>
S_encode ==
    <<"f","a","i","l","e","d"," ","t","o"," ","e","n","c","o","d","e"," ","t","h","u","m","b","n","a","i","l",":"," ">>
S_mkdir ==
    <<"m","k","d","i","r"," ">>
S_open ==
    <<"o","p","e","n"," ">>
S_enoent ==
    <<"n","o"," ","s","u","c","h"," ","f","i","l","e"," ","o","r"," ","d","i","r","e","c","t","o","r","y">>
S_eacces ==
    <<"p","e","r","m","i","s","s","i","o","n"," ","d","e","n","i","e","d">>
S_badData ==
    <<"u","n","e","x","p","e","c","t","e","d"," ","E","O","F">>
S_timeout ==
    <<"t","i","m","e","o","u","t">>
S_pdf ==
    <<".","p","d","f">>
S_tif ==
    <<".","t","i","f">>
S_tiff ==
    <<".","t","i","f","f">>
S_jpg ==
    <<".","j","p","g">>
S_jpeg ==
    <<".","j","p","e","g">>
S_png ==
    <<".","p","n","g">>

(***************************************************************************)
(* Text helpers: strings.ToLower, strings.Contains, filepath.Ext.          *)
(***************************************************************************)
UpperLetters ==
    <<"A","B","C","D","E","F","G","H","I","J","K","L","M","N","O","P","Q","R","S","T","U","V","W","X","Y","Z">>
LowerLetters ==
    <<"a","b","c","d","e","f","g","h","i","j","k","l","m","n","o","p","q","r","s","t","u","v","w","x","y","z">>

LowerChar(c) ==
    IF \E i \in 1..Len(UpperLetters) : UpperLetters[i] = c
    THEN LowerLetters[CHOOSE i \in 1..Len(UpperLetters) : UpperLetters[i] = c]
    ELSE c

ToLower(s) == [i \in 1..Len(s) |-> LowerChar(s[i])]

Contains(s, sub) ==
    \E i \in 0..(Len(s) - Len(sub)) :
        \A j \in 1..Len(sub) : s[i + j] = sub[j]

\* filepath.Ext: the suffix starting at the last dot of the last path
\* element; empty when that element has no dot.
IsPathSeparator(c) == c = "/"

ExtDots(path) ==
    {i \in 1..Len(path) :
        /\ path[i] = "."
        /\ \A k \in i..Len(path) : ~IsPathSeparator(path[k])}

Ext(path) ==
    IF ExtDots(path) = {} THEN <<>>
    ELSE LET i == CHOOSE d \in ExtDots(path) : \A e \in ExtDots(path) : e <= d
         IN  SubSeq(path, i, Len(path))

\* The decimal text of n >= 0 (fmt's %d).
RECURSIVE Itoa(_)
Itoa(n) ==
    LET digits == <<"0","1","2","3","4","5","6","7","8","9">>
    IN  IF n < 10 THEN <<digits[n + 1]>> ELSE Itoa(n \div 10) \o <<digits[(n % 10) + 1]>>

(***************************************************************************)
(* Go errors: nil, or a value with a message.                              *)
(***************************************************************************)
NilError == [nil |-> TRUE, msg |-> <<>>]
Errorf(msg) == [nil |-> FALSE, msg |-> msg]
Wrap(prefix, err) == Errorf(prefix \o err.msg)

(***************************************************************************)
(* Canonical heights.                                                      *)
(***************************************************************************)
\* A variant of pageHeight: the product truncated instead of rounded.
pageHeight_truncated(width) ==
    CHOOSE h \in 0..(2 * width) : h * h <= 2 * width * width /\ 2 * width * width < (h + 1) * (h + 1)

\* math.Round(x) for x = w * sqrt(2): the h with h - 1/2 <= x < h + 1/2,
\* stated on the squares of 2h-1, 2w*sqrt(2) and 2h+1.
pageHeight(width) ==
    CHOOSE h \in 0..(2 * width) :
        /\ (2 * h - 1 <= 0) \/ ((2 * h - 1) * (2 * h - 1) <= 8 * width * width)
        /\ 8 * width * width < (2 * h + 1) * (2 * h + 1)

\* math.Round(w * 1.42), half away from zero.
uniformHeight(width) == (142 * width + 50) \div 100

(***************************************************************************)
(* Pixels and bitmaps.                                                     *)
(***************************************************************************)
RGBA(r, g, b, a) == [tag |-> "rgba", v |-> <<r, g, b, a>>]
Transparent == RGBA(0, 0, 0, 0)
White == RGBA(255, 255, 255, 255)
bgColor == RGBA(240, 240, 240, 255)
\* A pixel of page `id` resampled by CatmullRom at (x, y) of the scaled image.
Sample(id, x, y) == [tag |-> "scaled", v |-> <<id, x, y, 255>>]
\* A pixel of a rendered glyph box.
Ink(x, y) == [tag |-> "text", v |-> <<x, y, 255, 255>>]

Rect(x0, y0, x1, y1) == [x0 |-> x0, y0 |-> y0, x1 |-> x1, y1 |-> y1]
Points(w, h) == (0..(w - 1)) \X (0..(h - 1))
InRect(p, r) == r.x0 <= p[1] /\ p[1] < r.x1 /\ r.y0 <= p[2] /\ p[2] < r.y1

NilImage == [nil |-> TRUE, w |-> 0, h |-> 0, px |-> <<>>]
\* image.NewRGBA(image.Rect(0, 0, w, h)): zeroed pixels.
NewRGBA(w, h) ==
    [nil |-> FALSE, w |-> w, h |-> h, px |-> [p \in Points(w, h) |-> Transparent]]
Bounds(img) == Rect(0, 0, img.w, img.h)
Dx(img) == img.w
Dy(img) == img.h

\* draw.Draw(dst, r, &image.Uniform{c}, image.Point{}, draw.Src)
DrawUniform(dst, r, c) ==
    [dst EXCEPT !.px = [p \in DOMAIN dst.px |-> IF InRect(p, r) THEN c ELSE dst.px[p]]]

\* draw.Draw(dst, r, src, sp, draw.Src): r is clipped to dst and to src.
DrawImage(dst, r, src, sp) ==
    [dst EXCEPT !.px = [p \in DOMAIN dst.px |->
        LET q == <<sp[1] + p[1] - r.x0, sp[2] + p[2] - r.y0>>
        IN  IF InRect(p, r) /\ q \in DOMAIN src.px THEN src.px[q] ELSE dst.px[p]]]

\* img.Set(x, y, c): no effect outside the bounds.
SetAll(img, pts, c) ==
    [img EXCEPT !.px = [p \in DOMAIN img.px |-> IF p \in pts THEN c ELSE img.px[p]]]

(***************************************************************************)
(* Labels and colours of the placeholder renderer (placeholder.go).        *)
(***************************************************************************)
L_PasswordProtected ==
    <<"P","a","s","s","w","o","r","d"," ","P","r","o","t","e","c","t","e","d">>
L_UnsupportedFormat ==
    <<"U","n","s","u","p","p","o","r","t","e","d"," ","F","o","r","m","a","t">>
L_FileNotFound ==
    <<"F","i","l","e"," ","N","o","t"," ","F","o","u","n","d">>
L_Error ==
    <<"E","r","r","o","r">>
L_NinePlus ==
    <<"9","+">>

\* basicfont.Face7x13
FaceAdvance == 7
FaceAscent == 11
FaceDescent == 2

\* Go's integer division truncates toward zero.
Quot(a, b) == IF a >= 0 THEN a \div b ELSE -((-a) \div b)
Max(a, b) == IF a >= b THEN a ELSE b
MeasureString(text) == FaceAdvance * Len(text)

\* font.Drawer.DrawString(text) with the dot at (x, y): the glyph boxes,
\* clipped to the destination.
DrawString(img, text, x, y) ==
    [img EXCEPT !.px = [p \in DOMAIN img.px |->
        IF InRect(p, Rect(x, y - FaceAscent, x + MeasureString(text), y + FaceDescent))
        THEN Ink(p[1] - x, p[2] - (y - FaceAscent))
        ELSE img.px[p]]]

(***************************************************************************)
(* Page fitter (resizeToPage).                                             *)
(***************************************************************************)
\* A decoded page: an identity and its bounds.
Page(id, w, h) == [id |-> id, w |-> w, h |-> h]

\* int(float64(srcH) * float64(width) / float64(srcW))
\* A variant of scaledHeight: width and height of the source exchanged.
scaledHeight_swapped(srcW, srcH, width) == (srcW * width) \div srcH

scaledHeight(srcW, srcH, width) == (srcH * width) \div srcW

\* draw.CatmullRom.Scale(scaled, scaled.Bounds(), img, b, draw.Src, nil)
Scale(img, w, h) ==
    [nil |-> FALSE, w |-> w, h |-> h, px |-> [p \in Points(w, h) |-> Sample(img.id, p[1], p[2])]]

\* A variant of blankPage: an image with the (empty) bounds of the source.
blankPage_empty(width) == NewRGBA(0, 0)

\* The canvas resizeToPage allocates for a page with no pixels.
blankPage(width) == NewRGBA(width, pageHeight(width))

\* The canvas resizeToPage draws into.
pageCanvas(width) == NewRGBA(width, pageHeight(width))

resizeToPage(img, width) ==
    IF img.w = 0 \/ img.h = 0
    THEN blankPage(width)
    ELSE LET scaledH == scaledHeight(img.w, img.h, width)
             scaled  == Scale(img, width, scaledH)
             ph      == pageHeight(width)
             dst     == DrawUniform(pageCanvas(width), Rect(0, 0, width, ph), White)
         IN  IF scaledH >= ph
             THEN DrawImage(dst, Bounds(dst), scaled, <<0, 0>>)
             ELSE DrawImage(dst, Rect(0, 0, width, scaledH), scaled, <<0, 0>>)

(***************************************************************************)
(* Composite layout (compositePages, drawPlusIndicator).                   *)
(***************************************************************************)
MaxShown == 4

\* A variant of numPagesToShow: no cap on the tiles.
numPagesToShow_all(n) == n

numPagesToShow(n) == IF n > MaxShown THEN MaxShown ELSE n
showPlusIndicator(n) == n > MaxShown

\* A variant of totalWidth: the indicator tile as wide as it is high.
totalWidth_squareIndicator(n, width) ==
    numPagesToShow(n) * width + (IF showPlusIndicator(n) THEN pageHeight(width) ELSE 0)

\* A variant of totalWidth: one tile for every page of the set.
totalWidth_perPage(n, width) == n * width + (IF n > MaxShown THEN width ELSE 0)

totalWidth(n, width) ==
    numPagesToShow(n) * width + (IF showPlusIndicator(n) THEN width ELSE 0)

lineWidthOf(size) == IF size \div 8 < 2 THEN 2 ELSE size \div 8

drawPlusIndicator(img, startX, height) ==
    LET indicatorBg == RGBA(240, 240, 240, 255)
        plusColor == RGBA(100, 100, 100, 255)
        size      == height
        lineWidth == lineWidthOf(size)
        half      == lineWidth \div 2
        centerX   == startX + size \div 2
        centerY   == height \div 2
        bg        == {p \in DOMAIN img.px : InRect(p, Rect(startX, 0, startX + size, height))}
        vbar      == {p \in DOMAIN img.px :
                        InRect(p, Rect(centerX - half, size \div 4,
                                       centerX + half + 1, (3 * size) \div 4))}
        hbar      == {p \in DOMAIN img.px :
                        InRect(p, Rect(startX + size \div 4, centerY - half,
                                       startX + (3 * size) \div 4, centerY + half + 1))}
    IN  SetAll(SetAll(SetAll(img, bg, indicatorBg), vbar, plusColor), hbar, plusColor)

RECURSIVE blitPages_stacked(_, _, _, _, _, _)
\* A variant of blitPages: currentX is not advanced.
blitPages_stacked(composite, resizedPages, i, currentX, ph, width) ==
    IF i > Len(resizedPages) THEN composite
    ELSE blitPages_stacked(
            DrawImage(composite,
                      Rect(currentX, 0, currentX + Dx(resizedPages[i]), ph),
                      resizedPages[i], <<0, 0>>),
            resizedPages, i + 1, currentX, ph, width)

RECURSIVE blitPages(_, _, _, _, _, _)
\* for i := 0; i < numPagesToShow; i++ { draw page i at currentX }
blitPages(composite, resizedPages, i, currentX, ph, width) ==
    IF i > Len(resizedPages) THEN composite
    ELSE blitPages(
            DrawImage(composite,
                      Rect(currentX, 0, currentX + Dx(resizedPages[i]), ph),
                      resizedPages[i], <<0, 0>>),
            resizedPages, i + 1, currentX + width, ph, width)

compositePages(pages, width) ==
    LET n            == Len(pages)
        shown        == numPagesToShow(n)
        ph           == pageHeight(width)
        resizedPages == [i \in 1..shown |-> resizeToPage(pages[i], width)]
        composite    == NewRGBA(totalWidth(n, width), ph)
        filled       == DrawUniform(composite, Bounds(composite), White)
        blitted      == blitPages(filled, resizedPages, 1, 0, ph, width)
    IN  IF showPlusIndicator(n)
        THEN drawPlusIndicator(blitted, shown * width, ph)
        ELSE blitted

(***************************************************************************)
(* Uniform layout (uniformPage, drawPageCountBadge).                       *)
(***************************************************************************)
\* A variant of badgeLabel: "9+" only above ten pages.
badgeLabel_aboveTen(pageCount) == IF pageCount > 10 THEN L_NinePlus ELSE Itoa(pageCount)

badgeLabel(pageCount) == IF pageCount > 9 THEN L_NinePlus ELSE Itoa(pageCount)

\* uint8(float64(c) * 0.3) on each of R, G, B; alpha 255.
Darken(px) ==
    IF px.tag = "rgba"
    THEN RGBA((3 * px.v[1]) \div 10, (3 * px.v[2]) \div 10, (3 * px.v[3]) \div 10, 255)
    ELSE [tag |-> "dark", v |-> px.v]

drawPageCountBadge(img, pageCount) ==
    LET label     == badgeLabel(pageCount)
        textWidth == MeasureString(label)
        ascent    == FaceAscent
        padding   == 3
        badgeW    == textWidth + padding * 2
        badgeH    == ascent + padding * 2
        margin    == 2
        badgeX    == Dx(img) - badgeW - margin
        badgeY    == Dy(img) - badgeH - margin
        darkened  == [img EXCEPT !.px = [p \in DOMAIN img.px |->
                        IF InRect(p, Rect(badgeX, badgeY, badgeX + badgeW, badgeY + badgeH))
                        THEN Darken(img.px[p]) ELSE img.px[p]]]
    IN  DrawString(darkened, label, badgeX + padding, badgeY + padding + ascent)

\* A variant of uniformCanvas: the composite style's height.
uniformCanvas_pageHeight(width) == NewRGBA(width, pageHeight(width))

\* The canvas uniformPage allocates.
uniformCanvas(width) == NewRGBA(width, uniformHeight(width))

uniformPage(firstPage, pageCount, width) ==
    LET w      == width
        h      == uniformHeight(width)
        dst    == DrawUniform(uniformCanvas(width), Rect(0, 0, w, h), bgColor)
        fitted ==
            IF firstPage.w > 0 /\ firstPage.h > 0
            THEN LET scaledH == scaledHeight(firstPage.w, firstPage.h, width)
                     scaled  == Scale(firstPage, w, scaledH)
                 IN  IF scaledH >= h
                     THEN DrawImage(dst, Bounds(dst), scaled, <<0, 0>>)
                     ELSE DrawImage(dst, Rect(0, 0, w, scaledH), scaled, <<0, 0>>)
            ELSE dst
    IN  IF pageCount > 1 THEN drawPageCountBadge(fitted, pageCount) ELSE fitted

(***************************************************************************)
(* Placeholder renderer (classifyError, ErrorPlaceholder).                 *)
(***************************************************************************)
placeholderInfo(label, bg) == [label |-> label, bg |-> bg]

\* A variant of classifyError: the first two rules in the other order.
classifyError_swapped(err) ==
    LET msg == err.msg
    IN  IF Contains(msg, S_unsupported)
        THEN placeholderInfo(L_UnsupportedFormat, RGBA(130, 130, 130, 255))
        ELSE IF Contains(msg, S_invalidPassword)
        THEN placeholderInfo(L_PasswordProtected, RGBA(200, 150, 0, 255))
        ELSE IF Contains(msg, S_noSuchFile) \/ Contains(msg, S_notExist)
        THEN placeholderInfo(L_FileNotFound, RGBA(80, 80, 80, 255))
        ELSE placeholderInfo(L_Error, RGBA(180, 40, 40, 255))

classifyError(err) ==
    LET msg == err.msg
    IN  IF Contains(msg, S_invalidPassword)
        THEN placeholderInfo(L_PasswordProtected, RGBA(200, 150, 0, 255))
        ELSE IF Contains(msg, S_unsupported)
        THEN placeholderInfo(L_UnsupportedFormat, RGBA(130, 130, 130, 255))
        ELSE IF Contains(msg, S_noSuchFile) \/ Contains(msg, S_notExist)
        THEN placeholderInfo(L_FileNotFound, RGBA(80, 80, 80, 255))
        ELSE placeholderInfo(L_Error, RGBA(180, 40, 40, 255))

bgForLabel(label) ==
    IF label = L_PasswordProtected THEN RGBA(200, 150, 0, 255)
    ELSE IF label = L_UnsupportedFormat THEN RGBA(130, 130, 130, 255)
    ELSE IF label = L_FileNotFound THEN RGBA(80, 80, 80, 255)
    ELSE RGBA(180, 40, 40, 255)

drawCentredText(img, text, w, h) ==
    LET textWidth == MeasureString(text)
        x         == Max(Quot(w - textWidth, 2), 2)
        y         == h \div 2 + FaceAscent \div 2
    IN  DrawString(img, text, x, y)

\* A variant of placeholderCanvas: the uniform style's height.
placeholderCanvas_uniform(width) == NewRGBA(width, uniformHeight(width))

\* The canvas ErrorPlaceholder allocates.
placeholderCanvas(width) == NewRGBA(width, pageHeight(width))

ErrorPlaceholder(label, width) ==
    LET w      == width
        h      == pageHeight(width)
        img    == placeholderCanvas(width)
        filled == SetAll(img, Points(w, h), bgForLabel(label))
    IN  drawCentredText(filled, label, w, h)

(***************************************************************************)
(* corrupt.go: the corruption detector.  A bitmap handed to the detector  *)
(* is described by its kind (a packed *image.RGBA or any other            *)
(* image.Image), its bounds, its stride and the alpha value of each pixel; *)
(* the non-opaque pixels are those whose row matches img.rows and whose    *)
(* column matches img.cols, both relative to the top left of the bounds.   *)
(***************************************************************************)
InPattern(i, pat) == pat.from <= i /\ i < pat.to /\ (i - pat.from) % pat.every = 0

\* Alpha (8 bit) of the pixel cx columns and cy rows from the top left of
\* the bounds; memory outside the bitmap does not hold opaque pixels.
AlphaAt(img, cx, cy) ==
    IF 0 <= cx /\ cx < (img.rect.x1 - img.rect.x0) /\ 0 <= cy /\ cy < (img.rect.y1 - img.rect.y0)
    THEN IF InPattern(cy, img.rows) /\ InPattern(cx, img.cols) THEN 254 ELSE 255
    ELSE 0

\* rgba.Pix[i]: Pix[0] is the red byte of the pixel at Rect.Min, rows are
\* Stride bytes apart, the alpha byte is the fourth of each pixel.
Pix(img, i) ==
    IF i % 4 = 3 /\ (i % img.stride) \div 4 < (img.rect.x1 - img.rect.x0)
    THEN AlphaAt(img, (i % img.stride) \div 4, i \div img.stride)
    ELSE 0

\* The alpha component of img.At(x, y).RGBA(): 16 bit, 0xffff when opaque.
At(img, x, y) == 257 * AlphaAt(img, x - img.rect.x0, y - img.rect.y0)

RECURSIVE GCD(_, _)
GCD(a, b) == IF b = 0 THEN a ELSE GCD(b, a % b)

\* float64(n) / float64(d): with 0 <= n <= d < 1000 distinct quotients are
\* distinct doubles, so the value is kept as the fraction in lowest terms.
Frac(n, d) == <<n \div GCD(n, d), d \div GCD(n, d)>>

CorruptionResult(corrupt, reason, corruptFrac, alphaFrac) ==
    [Corrupt |-> corrupt, Reason |-> reason,
     CorruptRowFraction |-> corruptFrac, NonOpaqueRowFraction |-> alphaFrac]

\* A variant of rowStepOf: stepping starts above 1000 rows.
rowStepOf_late(h) == IF h > 1000 THEN h \div 500 ELSE 1

rowStepOf(h) == IF h > 500 THEN h \div 500 ELSE 1
xStepOf(w) == IF w > 100 THEN w \div 100 ELSE 1

\* Variants of the comparisons of the detector.
rowIsCorrupt_atLeast(nonOpaqueInRow, pixelsSampled) ==
    pixelsSampled > 0 /\ 10 * nonOpaqueInRow >= pixelsSampled
verdict_majority(corruptRows, alphaRows, rowsSampled) ==
    IF 2 * corruptRows > rowsSampled
    THEN CorruptionResult(TRUE, "non-opaque alpha rows indicating corrupt pixel buffer",
                          Frac(corruptRows, rowsSampled), Frac(alphaRows, rowsSampled))
    ELSE CorruptionResult(FALSE, "", Frac(corruptRows, rowsSampled), Frac(alphaRows, rowsSampled))
opaque16_byte(a) == a = 255
rowStart_absolute(img, y) == y * img.stride

\* float64(nonOpaqueInRow) / float64(pixelsSampled) > 0.10
rowIsCorrupt(nonOpaqueInRow, pixelsSampled) ==
    pixelsSampled > 0 /\ 10 * nonOpaqueInRow > pixelsSampled

\* corruptFrac > 0.05 decides the verdict; both fractions are returned in
\* either case.
verdict(corruptRows, alphaRows, rowsSampled) ==
    IF rowsSampled = 0
    THEN CorruptionResult(FALSE, "", <<0, 1>>, <<0, 1>>)
    ELSE IF 20 * corruptRows > rowsSampled
         THEN CorruptionResult(TRUE, "non-opaque alpha rows indicating corrupt pixel buffer",
                               Frac(corruptRows, rowsSampled), Frac(alphaRows, rowsSampled))
         ELSE CorruptionResult(FALSE, "", Frac(corruptRows, rowsSampled), Frac(alphaRows, rowsSampled))

opaque16(a) == a = 65535
rowStart(img, y) == (y - img.rect.y0) * img.stride

\* The rows y and the columns x (relative to the left edge) the packed path
\* reads: for y := b.Min.Y; y < b.Max.Y; y += rowStep, for x := 0; x < w;
\* x += xStep.
sampledRows(b) == {y \in b.y0..(b.y1 - 1) : (y - b.y0) % rowStepOf(b.y1 - b.y0) = 0}
sampledCols(w) == {x \in 0..(w - 1) : x % xStepOf(w) = 0}

checkGenericCorruption(img) ==
    LET b == img.rect
        w == b.x1 - b.x0
        h == b.y1 - b.y0
        rows == {y \in b.y0..(b.y1 - 1) : (y - b.y0) % rowStepOf(h) = 0}
        cols == {x \in b.x0..(b.x1 - 1) : (x - b.x0) % xStepOf(w) = 0}
        nonOpaqueInRow(y) == Cardinality({x \in cols : ~opaque16(At(img, x, y))})
        nonOpaqueRows == Cardinality({y \in rows : rowIsCorrupt(nonOpaqueInRow(y), Cardinality(cols))})
    IN  IF w = 0 \/ h = 0
        THEN CorruptionResult(TRUE, "zero dimensions", <<0, 1>>, <<0, 1>>)
        ELSE verdict(nonOpaqueRows, nonOpaqueRows, Cardinality(rows))

CheckPageCorruption(img) ==
    IF img.kind # "RGBA"
    THEN checkGenericCorruption(img)
    ELSE LET b == img.rect
             w == b.x1 - b.x0
             h == b.y1 - b.y0
             rows == sampledRows(b)
             cols == sampledCols(w)
             nonOpaqueInRow(y) == Cardinality({x \in cols : Pix(img, rowStart(img, y) + x * 4 + 3) # 255})
             \* alphaRows and corruptRows are incremented together
             alphaRows == Cardinality({y \in rows : rowIsCorrupt(nonOpaqueInRow(y), Cardinality(cols))})
         IN  IF w = 0 \/ h = 0
             THEN CorruptionResult(TRUE, "zero dimensions", <<0, 1>>, <<0, 1>>)
             ELSE verdict(alphaRows, alphaRows, Cardinality(rows))

CheckThumbnailCorruption(img) == CheckPageCorruption(img)

\* A variant of fixAlpha: the pixels are copied as they are.
fixAlpha_copyOnly(src) == src

\* RenderPDF's copy of a page bitmap: pix[i] = 255 for i = 3, 7, 11, ...;
\* with 4 bytes per pixel and a stride that is a multiple of 4 these are
\* the alpha bytes of all pixels, so no row holds a non-opaque pixel.
\* Stride and Rect are those of the source.
fixAlpha(src) ==
    IF src.stride % 4 = 0
    THEN [src EXCEPT !.rows = [from |-> 0, to |-> 0, every |-> 1]]
    ELSE src

(***************************************************************************)
(* thumbnail.go: DefaultThumbnailPath.                                     *)
(***************************************************************************)
\* A variant of DefaultThumbnailPath: the suffix appended to the whole path.
DefaultThumbnailPath_keepExt(docPath, width) ==
    docPath \o <<".","t","n","_">> \o Itoa(width) \o <<".","p","n","g">>

DefaultThumbnailPath(docPath, width) ==
    LET ext  == Ext(docPath)
        base == SubSeq(docPath, 1, Len(docPath) - Len(ext))
    IN  base \o <<".","t","n","_">> \o Itoa(width) \o <<".","p","n","g">>

(***************************************************************************)
(* pdf.go, pdfrenderer: the resources of a PDF extraction.  Pools,         *)
(* documents and the rasterizer's page bitmaps are numbered in the order   *)
(* they are created; 0 is Go's nil.                                        *)
(***************************************************************************)
Calls == {1, 2}
MaxCallPages == 2
MaxDetectorDim == 1100

\* A variant of webassemblyInit: one pool for the whole process.
webassemblyInit_shared(existing) ==
    IF existing = <<>>
    THEN [pool |-> 1, pools |-> <<"open">>]
    ELSE [pool |-> 1, pools |-> existing]

\* webassembly.Init(...): a pool of its own for every renderer.
webassemblyInit(existing) ==
    [pool |-> Len(existing) + 1, pools |-> Append(existing, "open")]

\* A variant of copyPixels: the rasterizer's own image is stored.
copyPixels_alias(pageRender) == [mem |-> "rasterizer", buf |-> pageRender, alpha |-> "any"]

\* pix := make(...); copy(pix, src.Pix); every alpha byte set to 255;
\* img := &image.RGBA{Pix: pix, ...}: the pixels of bitmap `pageRender` in
\* memory of the Go heap.
copyPixels(pageRender) == [mem |-> "go", buf |-> pageRender, alpha |-> "255"]

NoImage == [mem |-> "none", buf |-> 0, alpha |-> "none"]

\* The local variables of renderPDFPages, NewPDFiumRenderer and RenderPDF.
IdleCall ==
    [pc |-> "idle", pool |-> 0, instance |-> "none", doc |-> 0, numPages |-> 0,
     pageIndex |-> 0, pageRender |-> 0, img |-> NoImage, images |-> <<>>, result |-> "none",
     closeCalls |-> 0, poolCloses |-> 0]

\* Calls of PDFiumRenderer.Close on one renderer.
MaxCloseCalls == 2

\* A variant of afterClose: r.pool is kept.
afterClose_keepPool(r) == [r EXCEPT !.instance = "none", !.closeCalls = r.closeCalls + 1]

\* PDFiumRenderer.Close: r.pool = nil (when set), r.instance = nil.
afterClose(r) ==
    [r EXCEPT !.pool = 0, !.instance = "none", !.closeCalls = r.closeCalls + 1]

(***************************************************************************)
(* Inputs of the model.                                                    *)
(***************************************************************************)
\* File paths: every supported extension, in several cases of letters, two
\* unsupported ones, a path with a dot in a directory only, a trailing dot.
Paths ==
    {<<"a",".","P","D","F">>,
     <<"b",".","t","i","f">>,
     <<"d",".","r","/","c",".","T","I","F","F">>,
     <<"e",".","j","p","g">>,
     <<"f",".","J","P","E","G">>,
     <<"g",".","P","n","g">>,
     <<"h",".","x","y","z">>,
     <<"i",".","X","y","Z">>,
     <<"d",".","p","d","f","/","j">>,
     <<"k",".">>}
Widths == 0..MaxWidth
StyleComposite == "StyleComposite"
StyleUniform == "StyleUniform"
Styles == {StyleComposite, StyleUniform}

\* Bounds of the pages the rasterizer hands back: a page with no columns, a
\* tall page (cropped), a wide page (padded; its scaled height truncates to
\* 0 at small widths).
PageShapes == {<<0, 2>>, <<1, 3>>, <<3, 1>>}
\* Bounds of the image a TIFF, JPEG or PNG decoder hands back.
DecodedShapes == (0..MaxSrcDim) \X (0..MaxSrcDim)

\* Error texts of the collaborators (os, go-pdfium, image decoders).
OsErrors(path) == {S_open \o path \o S_colon \o S_enoent,
                   S_open \o path \o S_colon \o S_eacces}
PdfiumErrors == {S_invalidPassword, S_badData}
DecodeErrors == {S_badData}

(***************************************************************************)
(* State.                                                                  *)
(***************************************************************************)
VARIABLES
    pc,          \* position of the call
    api,         \* "GenerateStyled" | "GenerateOrPlaceholder"
    filePath, width, style,
    pool,        \* the PDFium pool: "none" | "open" | "closed"
    instance,    \* the renderer's instance: "none" | "held" | "nil"
    doc,         \* the PDF document: "none" | "open" | "closed"
    numPages, pageIndex, images,
    renders,     \* number of RenderPageInDPI requests issued
    failedAt,    \* index of the page whose rendering failed, or -1
    rpages, rerr,\* what RenderPDF returned
    pages, err,  \* what renderPages returned
    img, gerr,   \* what GenerateStyled returned
    ret,         \* what GenerateOrPlaceholder returned
    collaborators, \* the decoders and engines invoked by the call
    fn, arg, out,\* a pure function applied on its own, its input and result
    calls,       \* concurrent PDF extractions: the local state of each
    pools,       \* the rasterizer pools created so far: "open" | "closed"
    documents,   \* the documents opened so far: owning pool and state
    buffers,     \* the rasterizer's page bitmaps: owning pool and state
    outputPath,  \* where GenerateStyledAndSave writes the PNG
    fs,          \* the filesystem: directories and files with their content
    serr         \* what GenerateStyledAndSave returned

vars == <<pc, api, filePath, width, style, pool, instance, doc, numPages,
          pageIndex, images, renders, failedAt, rpages, rerr, pages, err,
          img, gerr, ret, collaborators, fn, arg, out,
          calls, pools, documents, buffers, outputPath, fs, serr>>

callVars == <<api, filePath, width, style>>
pdfVars == <<pool, instance, doc, numPages, pageIndex, images, renders, failedAt, rpages, rerr>>
pureVars == <<fn, arg, out>>
concVars == <<calls, pools, documents, buffers>>
saveVars == <<outputPath, fs, serr>>

\* The content of a file: what was written and, for a PNG, the image.
Bytes(kind, image) == [kind |-> kind, image |-> image]

\* The filesystem before the call: one directory holding an older thumbnail.
OldThumbnail == <<"o","/","t",".","p","n","g">>
InitFs == [dirs  |-> {<<"o">>},
           files |-> {<<OldThumbnail, Bytes("old", NilImage)>>}]
\* Output paths: the existing file, a file in directories that do not exist
\* yet, a file in the current directory.
OutputPaths == {OldThumbnail, <<"n","/","m","/","t",".","p","n","g">>, <<"t",".","p","n","g">>}

\* A page list: Go's nil slice, or a slice.
NilPages == [nil |-> TRUE, s |-> <<>>]
Slice(s) == [nil |-> FALSE, s |-> s]

Init ==
    /\ pc = "idle"
    /\ api = "none" /\ filePath = <<>> /\ width = 0 /\ style = StyleComposite
    /\ pool = "none" /\ instance = "none" /\ doc = "none"
    /\ numPages = 0 /\ pageIndex = 0 /\ images = <<>>
    /\ renders = 0 /\ failedAt = -1
    /\ rpages = NilPages /\ rerr = NilError
    /\ pages = NilPages /\ err = NilError
    /\ img = NilImage /\ gerr = NilError
    /\ ret = NilImage
    /\ collaborators = {}
    /\ fn = "none" /\ arg = <<>> /\ out = <<>>
    /\ calls = [c \in Calls |-> IdleCall]
    /\ pools = <<>> /\ documents = <<>> /\ buffers = <<>>
    /\ outputPath = <<>> /\ fs = InitFs /\ serr = NilError

(***************************************************************************)
(* Entry points (thumbnail.go, placeholder.go).                            *)
(***************************************************************************)
\* GenerateStyled(filePath, width, style)
CallGenerateStyled(p, w, s) ==
    /\ pc = "idle"
    /\ api' = "GenerateStyled" /\ filePath' = p /\ width' = w /\ style' = s
    /\ pc' = "renderPages"
    /\ UNCHANGED <<pdfVars, pages, err, img, gerr, ret, collaborators, pureVars, concVars, saveVars>>

\* GenerateOrPlaceholder(filePath, width): Generate, that is GenerateStyled
\* with StyleComposite.
CallGenerateOrPlaceholder(p, w) ==
    /\ pc = "idle"
    /\ api' = "GenerateOrPlaceholder" /\ filePath' = p /\ width' = w
    /\ style' = StyleComposite
    /\ pc' = "renderPages"
    /\ UNCHANGED <<pdfVars, pages, err, img, gerr, ret, collaborators, pureVars, concVars, saveVars>>

\* GenerateStyledAndSave(filePath, outputPath, width, style)
CallGenerateStyledAndSave(p, o, w, s) ==
    /\ pc = "idle"
    /\ api' = "GenerateStyledAndSave" /\ filePath' = p /\ width' = w /\ style' = s
    /\ outputPath' = o
    /\ pc' = "renderPages"
    /\ UNCHANGED <<pdfVars, pages, err, img, gerr, ret, collaborators, pureVars,
                   concVars, fs, serr>>

\* GenerateAndSave(filePath, outputPath, width): GenerateStyledAndSave with
\* StyleComposite.
CallGenerateAndSave(p, o, w) ==
    /\ pc = "idle"
    /\ api' = "GenerateAndSave" /\ filePath' = p /\ width' = w
    /\ style' = StyleComposite
    /\ outputPath' = o
    /\ pc' = "renderPages"
    /\ UNCHANGED <<pdfVars, pages, err, img, gerr, ret, collaborators, pureVars,
                   concVars, fs, serr>>

(***************************************************************************)
(* renderPages: dispatch on the lowercased extension.                      *)
(***************************************************************************)
extOf(path) == ToLower(Ext(path))

\* A variant of reportedExt: the extension as written in the path.
reportedExt_raw(path) == Ext(path)

\* The extension the unsupported-format error carries.
reportedExt(path) == extOf(path)

unsupportedError(path) == Errorf(S_unsupported \o S_colon \o reportedExt(path))

formatOf(ext) ==
    IF ext = S_pdf THEN "pdf"
    ELSE IF ext = S_tif \/ ext = S_tiff THEN "tiff"
    ELSE IF ext = S_jpg \/ ext = S_jpeg \/ ext = S_png THEN "image"
    ELSE "unsupported"

RenderPagesDispatch ==
    /\ pc = "renderPages"
    /\ LET format == formatOf(extOf(filePath))
       IN  IF format = "pdf"
           THEN pc' = "NewPDFiumRenderer" /\ UNCHANGED <<pages, err>>
           ELSE IF format = "tiff"
           THEN pc' = "renderTIFFPages" /\ UNCHANGED <<pages, err>>
           ELSE IF format = "image"
           THEN pc' = "renderImagePage" /\ UNCHANGED <<pages, err>>
           ELSE /\ pc' = "GenerateStyled"
                /\ pages' = NilPages
                /\ err' = unsupportedError(filePath)
    /\ UNCHANGED <<callVars, pdfVars, img, gerr, ret, collaborators, pureVars, concVars, saveVars>>

(***************************************************************************)
(* PDF path: NewPDFiumRenderer, RenderPDF, Close (pdfium_renderer.go) and  *)
(* renderPDFPages (pdf.go).                                                *)
(***************************************************************************)
\* pool.Close()
PoolClose(p) == "closed"

\* A variant of poolAfterInstanceFailure: the pool is left as it is.
poolAfterInstanceFailure_leak(p) == p

\* NewPDFiumRenderer releases the pool when no instance can be acquired.
poolAfterInstanceFailure(p) == PoolClose(p)

\* PDFiumRenderer.Close: if r.pool != nil { r.pool.Close(); r.pool = nil }
RendererClose(p) == IF p = "open" THEN PoolClose(p) ELSE p

\* defer r.instance.FPDF_CloseDocument(...), registered once the document
\* is open.
closeDocument(d) == IF d = "open" THEN "closed" ELSE d

\* webassembly.Init(...)
WasmInit ==
    /\ pc = "NewPDFiumRenderer"
    /\ collaborators' = collaborators \cup {"pdfium"}
    /\ \/ /\ pool' = "open"
          /\ pc' = "GetInstance"
          /\ UNCHANGED <<pages, err>>
       \/ \E e \in PdfiumErrors :
          /\ pool' = pool
          /\ pages' = NilPages
          /\ err' = Wrap(S_createRenderer, Wrap(S_initWasm, Errorf(e)))
          /\ pc' = "GenerateStyled"
    /\ UNCHANGED <<callVars, instance, doc, numPages, pageIndex, images, renders,
                   failedAt, rpages, rerr, img, gerr, ret, pureVars, concVars, saveVars>>

\* pool.GetInstance(30s)
GetInstance ==
    /\ pc = "GetInstance"
    /\ \/ /\ instance' = "held"
          /\ pc' = "ReadFile"
          /\ UNCHANGED <<pool, pages, err>>
       \/ /\ pool' = poolAfterInstanceFailure(pool)
          /\ instance' = instance
          /\ pages' = NilPages
          /\ err' = Wrap(S_createRenderer, Wrap(S_getInstance, Errorf(S_timeout)))
          /\ pc' = "GenerateStyled"
    /\ UNCHANGED <<callVars, doc, numPages, pageIndex, images, renders, failedAt,
                   rpages, rerr, img, gerr, ret, collaborators, pureVars, concVars, saveVars>>

\* os.ReadFile(filename)
ReadFile ==
    /\ pc = "ReadFile"
    /\ \/ /\ pc' = "OpenDocument"
          /\ UNCHANGED <<rpages, rerr>>
       \/ \E e \in OsErrors(filePath) :
          /\ rpages' = NilPages
          /\ rerr' = Wrap(S_readPDF, Errorf(e))
          /\ pc' = "RenderPDFReturn"
    /\ UNCHANGED <<callVars, pool, instance, doc, numPages, pageIndex, images,
                   renders, failedAt, pages, err, img, gerr, ret, collaborators,
                   pureVars, concVars, saveVars>>

\* r.instance.OpenDocument(...)
OpenDocument ==
    /\ pc = "OpenDocument"
    /\ \/ /\ doc' = "open"
          /\ pc' = "GetPageCount"
          /\ UNCHANGED <<rpages, rerr>>
       \/ \E e \in PdfiumErrors :
          /\ doc' = doc
          /\ rpages' = NilPages
          /\ rerr' = Wrap(S_openPDF, Errorf(e))
          /\ pc' = "RenderPDFReturn"
    /\ UNCHANGED <<callVars, pool, instance, numPages, pageIndex, images, renders,
                   failedAt, pages, err, img, gerr, ret, collaborators, pureVars, concVars, saveVars>>

\* r.instance.FPDF_GetPageCount(...); images := make([]image.Image, 0, numPages)
GetPageCount ==
    /\ pc = "GetPageCount"
    /\ \/ \E n \in 0..MaxPages :
          /\ numPages' = n
          /\ images' = <<>>
          /\ pageIndex' = 0
          /\ pc' = "RenderLoop"
          /\ UNCHANGED <<rpages, rerr>>
       \/ /\ rpages' = NilPages
          /\ rerr' = Wrap(S_pageCount, Errorf(S_badData))
          /\ pc' = "RenderPDFReturn"
          /\ UNCHANGED <<numPages, images, pageIndex>>
    /\ UNCHANGED <<callVars, pool, instance, doc, renders, failedAt, pages, err,
                   img, gerr, ret, collaborators, pureVars, concVars, saveVars>>

\* A variant of renderFailure: the page is skipped and the loop goes on.
renderFailure_skip(imgs, index, e) ==
    [pc     |-> "RenderLoop",
     images |-> imgs,
     rpages |-> NilPages,
     rerr   |-> NilError,
     next   |-> index + 1]

\* What the loop does when rendering page `index` fails with `e`: RenderPDF
\* returns (nil, error) at once.
renderFailure(imgs, index, e) ==
    [pc     |-> "RenderPDFReturn",
     images |-> imgs,
     rpages |-> NilPages,
     rerr   |-> Wrap(S_renderPage \o Itoa(index) \o S_colon, Errorf(e)),
     next   |-> index]

\* One iteration of the page loop: RenderPageInDPI, the copy of the pixels
\* into a new image.RGBA, Cleanup and append.
RenderPage ==
    /\ pc = "RenderLoop"
    /\ pageIndex < numPages
    /\ renders' = renders + 1
    /\ \/ \E shape \in PageShapes :
          /\ images' = Append(images, Page(pageIndex, shape[1], shape[2]))
          /\ pageIndex' = pageIndex + 1
          /\ UNCHANGED <<pc, failedAt, rpages, rerr>>
       \/ LET f == renderFailure(images, pageIndex, S_badData)
          IN  /\ failedAt' = pageIndex
              /\ pc' = f.pc
              /\ images' = f.images
              /\ rpages' = f.rpages
              /\ rerr' = f.rerr
              /\ pageIndex' = f.next
    /\ UNCHANGED <<callVars, pool, instance, doc, numPages, pages, err, img, gerr,
                   ret, collaborators, pureVars, concVars, saveVars>>

\* The loop is over: return images, nil.
RenderLoopEnd ==
    /\ pc = "RenderLoop"
    /\ pageIndex >= numPages
    /\ rpages' = Slice(images)
    /\ rerr' = NilError
    /\ pc' = "RenderPDFReturn"
    /\ UNCHANGED <<callVars, pool, instance, doc, numPages, pageIndex, images,
                   renders, failedAt, pages, err, img, gerr, ret, collaborators,
                   pureVars, concVars, saveVars>>

\* RenderPDF returns: its deferred FPDF_CloseDocument runs.
RenderPDFReturn ==
    /\ pc = "RenderPDFReturn"
    /\ doc' = closeDocument(doc)
    /\ pc' = "renderPDFPages"
    /\ UNCHANGED <<callVars, pool, instance, numPages, pageIndex, images, renders,
                   failedAt, rpages, rerr, pages, err, img, gerr, ret,
                   collaborators, pureVars, concVars, saveVars>>

\* A variant of pdfPagesResult: an empty page list is returned as it is.
pdfPagesResult_noEmptyCheck(rp, re) ==
    IF ~re.nil THEN [pages |-> NilPages, err |-> Wrap(S_renderPDFPages, re)]
    ELSE [pages |-> rp, err |-> NilError]

\* renderPDFPages after RenderPDF: (pages, err) it returns.
pdfPagesResult(rp, re) ==
    IF ~re.nil THEN [pages |-> NilPages, err |-> Wrap(S_renderPDFPages, re)]
    ELSE IF Len(rp.s) = 0 THEN [pages |-> NilPages, err |-> Errorf(S_pdfNoPages)]
    ELSE [pages |-> rp, err |-> NilError]

\* renderPDFPages returns: its deferred renderer.Close() runs.
RenderPDFPagesReturn ==
    /\ pc = "renderPDFPages"
    /\ pages' = pdfPagesResult(rpages, rerr).pages
    /\ err' = pdfPagesResult(rpages, rerr).err
    /\ pool' = RendererClose(pool)
    /\ instance' = "nil"
    /\ pc' = "GenerateStyled"
    /\ UNCHANGED <<callVars, doc, numPages, pageIndex, images, renders, failedAt,
                   rpages, rerr, img, gerr, ret, collaborators, pureVars, concVars, saveVars>>

(***************************************************************************)
(* TIFF path (renderTIFFPages, decodeTIFFPages) and image path             *)
(* (renderImagePage).                                                      *)
(***************************************************************************)
\* A decoder outcome: [ok, page, e].
DecodeOk(shape) == [ok |-> TRUE, page |-> Page(0, shape[1], shape[2]), e |-> <<>>]
DecodeFail(e) == [ok |-> FALSE, page |-> Page(0, 0, 0), e |-> e]
DecodeOutcomes == {DecodeOk(s) : s \in DecodedShapes} \cup {DecodeFail(e) : e \in DecodeErrors}

\* decodeTIFFPages: the first frame only.
decodeTIFFPages(o) ==
    IF o.ok THEN [pages |-> Slice(<<o.page>>), err |-> NilError]
    ELSE [pages |-> NilPages, err |-> Errorf(o.e)]

\* renderTIFFPages after a successful os.Open.
tiffPagesResult(o) ==
    LET d == decodeTIFFPages(o)
    IN  IF ~d.err.nil THEN [pages |-> NilPages, err |-> Wrap(S_decodeTIFF, d.err)]
        ELSE IF Len(d.pages.s) = 0 THEN [pages |-> NilPages, err |-> Errorf(S_tiffNoPages)]
        ELSE [pages |-> d.pages, err |-> NilError]

RenderTIFFPages ==
    /\ pc = "renderTIFFPages"
    /\ collaborators' = collaborators \cup {"tiff"}
    /\ \/ \E e \in OsErrors(filePath) :
          /\ pages' = NilPages
          /\ err' = Wrap(S_openTIFF, Errorf(e))
       \/ \E o \in DecodeOutcomes :
          /\ pages' = tiffPagesResult(o).pages
          /\ err' = tiffPagesResult(o).err
    /\ pc' = "GenerateStyled"
    /\ UNCHANGED <<callVars, pdfVars, img, gerr, ret, pureVars, concVars, saveVars>>

\* renderImagePage and the []image.Image{img} renderPages wraps it in.
imagePagesResult(o) ==
    IF o.ok THEN [pages |-> Slice(<<o.page>>), err |-> NilError]
    ELSE [pages |-> NilPages, err |-> Wrap(S_decodeImage, Errorf(o.e))]

RenderImagePage ==
    /\ pc = "renderImagePage"
    /\ collaborators' = collaborators \cup {"image"}
    /\ \/ \E e \in OsErrors(filePath) :
          /\ pages' = NilPages
          /\ err' = Wrap(S_openImage, Errorf(e))
       \/ \E o \in DecodeOutcomes :
          /\ pages' = imagePagesResult(o).pages
          /\ err' = imagePagesResult(o).err
    /\ pc' = "GenerateStyled"
    /\ UNCHANGED <<callVars, pdfVars, img, gerr, ret, pureVars, concVars, saveVars>>

(***************************************************************************)
(* GenerateStyled and GenerateOrPlaceholder after extraction.              *)
(***************************************************************************)
\* The layout GenerateStyled selects.
layout(pgs, w, s) ==
    IF s = StyleUniform
    THEN uniformPage(pgs[1], Len(pgs), w)
    ELSE compositePages(pgs, w)

SaveApis == {"GenerateStyledAndSave", "GenerateAndSave"}

GenerateStyledReturn ==
    /\ pc = "GenerateStyled"
    /\ IF ~err.nil
       THEN img' = NilImage /\ gerr' = err
       ELSE img' = layout(pages.s, width, style) /\ gerr' = NilError
    /\ pc' = IF api = "GenerateOrPlaceholder" THEN "GenerateOrPlaceholder"
             ELSE IF api \in SaveApis THEN "GenerateStyledAndSave"
             ELSE "done"
    /\ UNCHANGED <<callVars, pdfVars, pages, err, ret, collaborators, pureVars, concVars, saveVars>>

\* A variant of orPlaceholder: Generate's image whatever the error.
orPlaceholder_propagate(i, e, w) == i

\* What GenerateOrPlaceholder returns for Generate's (img, err).
orPlaceholder(i, e, w) ==
    IF e.nil THEN i ELSE ErrorPlaceholder(classifyError(e).label, w)

GenerateOrPlaceholderReturn ==
    /\ pc = "GenerateOrPlaceholder"
    /\ ret' = orPlaceholder(img, gerr, width)
    /\ pc' = "done"
    /\ UNCHANGED <<callVars, pdfVars, pages, err, img, gerr, collaborators, pureVars, concVars, saveVars>>

Next ==
    \/ \E p \in Paths, w \in Widths, s \in Styles : CallGenerateStyled(p, w, s)
    \/ \E p \in Paths, w \in Widths : CallGenerateOrPlaceholder(p, w)
    \/ RenderPagesDispatch
    \/ WasmInit
    \/ GetInstance
    \/ ReadFile
    \/ OpenDocument
    \/ GetPageCount
    \/ RenderPage
    \/ RenderLoopEnd
    \/ RenderPDFReturn
    \/ RenderPDFPagesReturn
    \/ RenderTIFFPages
    \/ RenderImagePage
    \/ GenerateStyledReturn
    \/ GenerateOrPlaceholderReturn

Spec == Init /\ [][Next]_vars

(***************************************************************************)
(* GenerateStyledAndSave after GenerateStyled (thumbnail.go).              *)
(***************************************************************************)
\* filepath.Dir: the path up to its last separator, "." when it has none.
Dir(path) ==
    LET seps == {i \in 1..Len(path) : IsPathSeparator(path[i])}
    IN  IF seps = {} THEN <<".">>
        ELSE LET i == CHOOSE s \in seps : \A t \in seps : t <= s
             IN  IF i = 1 THEN <<"/">> ELSE SubSeq(path, 1, i - 1)

\* os.MkdirAll(dir, 0755): the directory and the parents it lacks.
MkdirAll(dirs, dir) ==
    dirs \cup {dir}
         \cup {SubSeq(dir, 1, i - 1) : i \in {j \in 2..Len(dir) : IsPathSeparator(dir[j])}}

\* os.Create(path): the file is created, or truncated when it exists.
Create(files, path) == {f \in files : f[1] # path} \cup {<<path, Bytes("empty", NilImage)>>}

\* What f holds once png.Encode has written to it.
WriteFile(files, path, content) == {f \in files : f[1] # path} \cup {<<path, content>>}

\* A variant of saveEntry: the image is written whatever GenerateStyled
\* returned.
saveEntry_always(e) == "MkdirAll"

\* if err != nil { return err }
saveEntry(e) == IF e.nil THEN "MkdirAll" ELSE "done"

\* GenerateStyled has returned to GenerateStyledAndSave.
SaveCheckError ==
    /\ pc = "GenerateStyledAndSave"
    /\ pc' = saveEntry(gerr)
    /\ serr' = IF pc' = "done" THEN gerr ELSE serr
    /\ UNCHANGED <<callVars, pdfVars, pages, err, img, gerr, ret, collaborators,
                   pureVars, concVars, outputPath, fs>>

\* os.MkdirAll(filepath.Dir(outputPath), 0755)
SaveMkdirAll ==
    /\ pc = "MkdirAll"
    /\ \/ /\ fs' = [fs EXCEPT !.dirs = MkdirAll(fs.dirs, Dir(outputPath))]
          /\ pc' = "Create"
          /\ UNCHANGED serr
       \/ /\ serr' = Wrap(S_createDir, Errorf(S_mkdir \o Dir(outputPath) \o S_colon \o S_eacces))
          /\ pc' = "done"
          /\ UNCHANGED fs
    /\ UNCHANGED <<callVars, pdfVars, pages, err, img, gerr, ret, collaborators,
                   pureVars, concVars, outputPath>>

\* os.Create(outputPath)
SaveCreate ==
    /\ pc = "Create"
    /\ \/ /\ fs' = [fs EXCEPT !.files = Create(fs.files, outputPath)]
          /\ pc' = "Encode"
          /\ UNCHANGED serr
       \/ /\ serr' = Wrap(S_createFile, Errorf(S_open \o outputPath \o S_colon \o S_eacces))
          /\ pc' = "done"
          /\ UNCHANGED fs
    /\ UNCHANGED <<callVars, pdfVars, pages, err, img, gerr, ret, collaborators,
                   pureVars, concVars, outputPath>>

\* png.Encode(f, img), then the deferred f.Close()
SaveEncode ==
    /\ pc = "Encode"
    /\ \/ /\ fs' = [fs EXCEPT !.files = WriteFile(fs.files, outputPath, Bytes("png", img))]
          /\ serr' = NilError
       \/ /\ fs' = [fs EXCEPT !.files = WriteFile(fs.files, outputPath, Bytes("partial", NilImage))]
          /\ serr' = Wrap(S_encode, Errorf(S_badData))
    /\ pc' = "done"
    /\ UNCHANGED <<callVars, pdfVars, pages, err, img, gerr, ret, collaborators,
                   pureVars, concVars, outputPath>>

\* Calls that save: one file of every kind, two widths.
SavePaths == {<<"a",".","P","D","F">>, <<"b",".","t","i","f">>,
              <<"e",".","j","p","g">>, <<"h",".","x","y","z">>}
SaveWidths == {0, MaxWidth}

NextSave ==
    \/ \E p \in SavePaths, o \in OutputPaths, w \in SaveWidths, s \in Styles :
          CallGenerateStyledAndSave(p, o, w, s)
    \/ \E p \in SavePaths, o \in OutputPaths, w \in SaveWidths : CallGenerateAndSave(p, o, w)
    \/ RenderPagesDispatch
    \/ WasmInit
    \/ GetInstance
    \/ ReadFile
    \/ OpenDocument
    \/ GetPageCount
    \/ RenderPage
    \/ RenderLoopEnd
    \/ RenderPDFReturn
    \/ RenderPDFPagesReturn
    \/ RenderTIFFPages
    \/ RenderImagePage
    \/ GenerateStyledReturn
    \/ SaveCheckError
    \/ SaveMkdirAll
    \/ SaveCreate
    \/ SaveEncode

SpecSave == Init /\ [][NextSave]_vars

(***************************************************************************)
(* The pure functions applied on their own, on inputs drawn from bounded   *)
(* sets: the page fitter on every source size and width, the error         *)
(* classifier on every concatenation of up to MaxFrags message fragments.  *)
(***************************************************************************)
\* Fragments of error texts; "not " and "exist" match a rule only when
\* they are adjacent.
Fragments ==
    {S_invalidPassword, S_unsupported, S_enoent, <<"n","o","t"," ">>,
     <<"e","x","i","s","t">>, S_badData, S_colon}

RECURSIVE Texts(_)
Texts(k) ==
    IF k = 0 THEN {<<>>}
    ELSE Texts(k - 1) \cup {t \o f : t \in Texts(k - 1), f \in Fragments}

SrcDims == 0..MaxSrcDim

ApplyResizeToPage(srcW, srcH, w) ==
    /\ pc = "idle" /\ fn = "none"
    /\ fn' = "resizeToPage"
    /\ arg' = <<Page(0, srcW, srcH), w>>
    /\ out' = resizeToPage(Page(0, srcW, srcH), w)
    /\ UNCHANGED <<pc, callVars, pdfVars, pages, err, img, gerr, ret, collaborators, concVars, saveVars>>

ApplyClassifyError(text) ==
    /\ pc = "idle" /\ fn = "none"
    /\ fn' = "classifyError"
    /\ arg' = text
    /\ out' = classifyError(Errorf(text))
    /\ UNCHANGED <<pc, callVars, pdfVars, pages, err, img, gerr, ret, collaborators, concVars, saveVars>>

\* Document paths: the two of the documentation, a dot in a directory name
\* only, two extensions, a name that is all extension, a trailing dot, no
\* dot at all.
DocPaths ==
    {<<"d","o","c",".","p","d","f">>,
     <<"/","p","a","t","h","/","t","o","/","f","i","l","e",".","t","i","f","f">>,
     <<"a",".","b","/","c">>,
     <<"x",".","t","a","r",".","g","z">>,
     <<".","r","c">>,
     <<"k",".">>,
     <<"n","o","e","x","t">>,
     <<"d",".","r","/","e",".","x",".","y">>}

DocWidths == {0, 7, 64, 128, 1000}

ApplyDefaultThumbnailPath(docPath, w) ==
    /\ pc = "idle" /\ fn = "none"
    /\ fn' = "DefaultThumbnailPath"
    /\ arg' = <<docPath, w>>
    /\ out' = DefaultThumbnailPath(docPath, w)
    /\ UNCHANGED <<pc, callVars, pdfVars, pages, err, img, gerr, ret, collaborators, concVars, saveVars>>

ApplyHeights(w) ==
    /\ pc = "idle" /\ fn = "none"
    /\ fn' = "heights"
    /\ arg' = w
    /\ out' = <<pageHeight(w), uniformHeight(w)>>
    /\ UNCHANGED <<pc, callVars, pdfVars, pages, err, img, gerr, ret, collaborators, concVars, saveVars>>

\* uniformPage on a first page of every size, with the label handed to the
\* font drawer (none when no badge is drawn).
ApplyUniformPage(srcW, srcH, pageCount, w) ==
    /\ pc = "idle" /\ fn = "none"
    /\ fn' = "uniformPage"
    /\ arg' = <<Page(0, srcW, srcH), pageCount, w>>
    /\ out' = [image |-> uniformPage(Page(0, srcW, srcH), pageCount, w),
               label |-> IF pageCount > 1 THEN badgeLabel(pageCount) ELSE <<>>]
    /\ UNCHANGED <<pc, callVars, pdfVars, pages, err, img, gerr, ret, collaborators, concVars, saveVars>>

NextFunctions ==
    \/ \E srcW \in SrcDims, srcH \in SrcDims, w \in Widths : ApplyResizeToPage(srcW, srcH, w)
    \/ \E text \in Texts(MaxFrags) : ApplyClassifyError(text)
    \/ \E docPath \in DocPaths, w \in DocWidths : ApplyDefaultThumbnailPath(docPath, w)
    \/ \E w \in 0..MaxHeightWidth : ApplyHeights(w)
    \/ \E srcW \in SrcDims, srcH \in SrcDims, n \in 1..MaxBadgeCount, w \in Widths :
          ApplyUniformPage(srcW, srcH, n, w)

SpecFunctions == Init /\ [][NextFunctions]_vars

(***************************************************************************)
(* The corruption detector applied on its own to bitmaps of both kinds,   *)
(* small and large enough for the row and column steps to exceed 1, with  *)
(* bounds that start at the origin or elsewhere and, for packed bitmaps,   *)
(* a stride equal to or larger than the row length.                        *)
(***************************************************************************)
Pattern(from, to, every) == [from |-> from, to |-> to, every |-> every]

\* Rows holding non-opaque pixels: none, the first twentieth, one more than
\* that, a fifth at the top or at the bottom, every second row, all.
RowPatterns(h) ==
    {Pattern(0, 0, 1), Pattern(0, h \div 20, 1), Pattern(0, h \div 20 + 1, 1),
     Pattern(0, (h + 4) \div 5, 1), Pattern(h - (h + 4) \div 5, h, 1),
     Pattern(1, h, 2), Pattern(0, h, 1)}

\* Columns holding non-opaque pixels: the first tenth, one more than that,
\* every second column, all.
ColPatterns(w) ==
    {Pattern(0, w \div 10, 1), Pattern(0, w \div 10 + 1, 1), Pattern(1, w, 2), Pattern(0, w, 1)}

DetectorShapes ==
    {<<0, 3>>, <<3, 0>>, <<1, 1>>, <<10, 20>>, <<200, 20>>, <<10, 1000>>, <<3, 1500>>}

DetectorImage(kind, x0, y0, w, h, pad, rows, cols) ==
    [kind |-> kind, rect |-> Rect(x0, y0, x0 + w, y0 + h), stride |-> 4 * (w + pad),
     rows |-> rows, cols |-> cols]

DetectorInputs ==
    UNION {{DetectorImage(k[1], o[1], o[2], s[1], s[2], k[2], r, c) :
                k \in {<<"RGBA", 0>>, <<"RGBA", 1>>, <<"NRGBA", 0>>},
                o \in {<<0, 0>>, <<2, 3>>},
                r \in RowPatterns(s[2]), c \in ColPatterns(s[1])} : s \in DetectorShapes}

ApplyCheckPageCorruption(image) ==
    /\ pc = "idle" /\ fn = "none"
    /\ fn' = "CheckPageCorruption"
    /\ arg' = image
    /\ out' = CheckPageCorruption(image)
    /\ UNCHANGED <<pc, callVars, pdfVars, pages, err, img, gerr, ret, collaborators, concVars, saveVars>>

\* The sampling loops of the detector on a bitmap of n x n pixels whose
\* bounds start at (2, 3).
ApplySampling(n) ==
    /\ pc = "idle" /\ fn = "none"
    /\ fn' = "sampling"
    /\ arg' = Rect(2, 3, 2 + n, 3 + n)
    /\ out' = <<sampledRows(Rect(2, 3, 2 + n, 3 + n)), sampledCols(n)>>
    /\ UNCHANGED <<pc, callVars, pdfVars, pages, err, img, gerr, ret, collaborators, concVars, saveVars>>

\* A page as RenderPDF returns it, handed to the detector: the rasterizer's
\* bitmap is a packed RGBA bitmap with any alpha bytes.
ApplyRenderedPage(image) ==
    /\ pc = "idle" /\ fn = "none"
    /\ fn' = "RenderPDF"
    /\ arg' = image
    /\ out' = [page |-> fixAlpha(image), check |-> CheckPageCorruption(fixAlpha(image))]
    /\ UNCHANGED <<pc, callVars, pdfVars, pages, err, img, gerr, ret, collaborators, concVars, saveVars>>

NextCorruption ==
    \/ \E image \in DetectorInputs : ApplyCheckPageCorruption(image)
    \/ \E n \in 0..MaxDetectorDim : ApplySampling(n)
    \/ \E image \in {i \in DetectorInputs : i.kind = "RGBA"} : ApplyRenderedPage(image)

SpecCorruption == Init /\ [][NextCorruption]_vars

(***************************************************************************)
(* Two Generate-style calls on PDF documents running concurrently, each    *)
(* stepping through renderPDFPages, NewPDFiumRenderer, RenderPDF and the   *)
(* deferred closes, interleaved at the calls into the rasterizer.          *)
(***************************************************************************)
seqVars == <<pc, callVars, pdfVars, pages, err, img, gerr, ret, collaborators, pureVars,
            saveVars>>

Step(c, changes) == calls' = [calls EXCEPT ![c] = changes]

\* pool.Close(): the pool, and with it the documents and page bitmaps of
\* its instance, are gone.
ClosePool(p) ==
    /\ pools' = [pools EXCEPT ![p] = "closed"]
    /\ documents' = [d \in DOMAIN documents |->
                        IF documents[d].pool = p THEN [documents[d] EXCEPT !.state = "closed"]
                        ELSE documents[d]]
    /\ buffers' = [b \in DOMAIN buffers |->
                        IF buffers[b].pool = p THEN [buffers[b] EXCEPT !.state = "freed"]
                        ELSE buffers[b]]

\* renderPDFPages(path) is entered.
StartCall(c) ==
    /\ calls[c].pc = "idle"
    /\ Step(c, [calls[c] EXCEPT !.pc = "NewPDFiumRenderer"])
    /\ UNCHANGED <<seqVars, pools, documents, buffers>>

\* NewPDFiumRenderer: webassembly.Init
InitPool(c) ==
    /\ calls[c].pc = "NewPDFiumRenderer"
    /\ \/ LET r == webassemblyInit(pools)
          IN  /\ pools' = r.pools
              /\ Step(c, [calls[c] EXCEPT !.pc = "GetInstance", !.pool = r.pool])
       \/ /\ Step(c, [calls[c] EXCEPT !.pc = "done", !.result = "error"])
          /\ UNCHANGED pools
    /\ UNCHANGED <<seqVars, documents, buffers>>

\* NewPDFiumRenderer: pool.GetInstance; on failure pool.Close()
AcquireInstance(c) ==
    /\ calls[c].pc = "GetInstance"
    /\ \/ /\ Step(c, [calls[c] EXCEPT !.pc = "ReadFile", !.instance = "held"])
          /\ UNCHANGED <<pools, documents, buffers>>
       \/ /\ ClosePool(calls[c].pool)
          /\ Step(c, [calls[c] EXCEPT !.pc = "done", !.pool = 0, !.result = "error",
                                      !.poolCloses = calls[c].poolCloses + 1])
    /\ UNCHANGED seqVars

\* RenderPDF: os.ReadFile
ReadPDF(c) ==
    /\ calls[c].pc = "ReadFile"
    /\ \/ Step(c, [calls[c] EXCEPT !.pc = "OpenDocument"])
       \/ Step(c, [calls[c] EXCEPT !.pc = "Close", !.result = "error"])
    /\ UNCHANGED <<seqVars, pools, documents, buffers>>

\* RenderPDF: instance.OpenDocument, defer FPDF_CloseDocument
OpenPDF(c) ==
    /\ calls[c].pc = "OpenDocument"
    /\ \/ /\ documents' = Append(documents, [pool |-> calls[c].pool, state |-> "open"])
          /\ Step(c, [calls[c] EXCEPT !.pc = "GetPageCount", !.doc = Len(documents) + 1])
       \/ /\ Step(c, [calls[c] EXCEPT !.pc = "Close", !.result = "error"])
          /\ UNCHANGED documents
    /\ UNCHANGED <<seqVars, pools, buffers>>

\* RenderPDF: FPDF_GetPageCount, images := make(...)
CountPages(c) ==
    /\ calls[c].pc = "GetPageCount"
    /\ \/ \E n \in 0..MaxCallPages :
            Step(c, [calls[c] EXCEPT !.pc = "RenderLoop", !.numPages = n])
       \/ Step(c, [calls[c] EXCEPT !.pc = "CloseDocument", !.result = "error"])
    /\ UNCHANGED <<seqVars, pools, documents, buffers>>

\* RenderPDF: RenderPageInDPI for the next page; return nil, err on failure.
RenderPageInDPI(c) ==
    /\ calls[c].pc = "RenderLoop"
    /\ calls[c].pageIndex < calls[c].numPages
    /\ \/ /\ buffers' = Append(buffers, [pool |-> calls[c].pool, state |-> "live"])
          /\ Step(c, [calls[c] EXCEPT !.pc = "Copy", !.pageRender = Len(buffers) + 1])
       \/ /\ Step(c, [calls[c] EXCEPT !.pc = "CloseDocument", !.images = <<>>, !.result = "error"])
          /\ UNCHANGED buffers
    /\ UNCHANGED <<seqVars, pools, documents>>

\* RenderPDF: the copy of the pixels into a new image.RGBA.
CopyPixels(c) ==
    /\ calls[c].pc = "Copy"
    /\ Step(c, [calls[c] EXCEPT !.pc = "Cleanup", !.img = copyPixels(calls[c].pageRender)])
    /\ UNCHANGED <<seqVars, pools, documents, buffers>>

\* RenderPDF: pageRender.Cleanup()
Cleanup(c) ==
    /\ calls[c].pc = "Cleanup"
    /\ buffers' = [buffers EXCEPT ![calls[c].pageRender].state = "freed"]
    /\ Step(c, [calls[c] EXCEPT !.pc = "Append"])
    /\ UNCHANGED <<seqVars, pools, documents>>

\* RenderPDF: images = append(images, img), pageIndex++
AppendImage(c) ==
    /\ calls[c].pc = "Append"
    /\ Step(c, [calls[c] EXCEPT !.pc = "RenderLoop",
                                !.images = Append(calls[c].images, calls[c].img),
                                !.pageIndex = calls[c].pageIndex + 1])
    /\ UNCHANGED <<seqVars, pools, documents, buffers>>

\* RenderPDF: the loop is over, return images, nil.
FinishLoop(c) ==
    /\ calls[c].pc = "RenderLoop"
    /\ calls[c].pageIndex >= calls[c].numPages
    /\ Step(c, [calls[c] EXCEPT !.pc = "CloseDocument", !.result = "ok"])
    /\ UNCHANGED <<seqVars, pools, documents, buffers>>

\* RenderPDF returns: the deferred FPDF_CloseDocument
CloseDocument(c) ==
    /\ calls[c].pc = "CloseDocument"
    /\ documents' = [documents EXCEPT ![calls[c].doc].state = "closed"]
    /\ Step(c, [calls[c] EXCEPT !.pc = "Close"])
    /\ UNCHANGED <<seqVars, pools, buffers>>

\* PDFiumRenderer.Close on the renderer of call c.
RendererCloseCall(c, next) ==
    /\ IF calls[c].pool # 0
       THEN ClosePool(calls[c].pool)
       ELSE UNCHANGED <<pools, documents, buffers>>
    /\ Step(c, [afterClose(calls[c]) EXCEPT
                    !.pc = next,
                    !.poolCloses = calls[c].poolCloses + (IF calls[c].pool # 0 THEN 1 ELSE 0)])

\* renderPDFPages returns: the deferred renderer.Close()
CloseRenderer(c) ==
    /\ calls[c].pc = "Close"
    /\ RendererCloseCall(c, "layout")
    /\ UNCHANGED seqVars

\* Close called again on a renderer that was closed.
CloseAgain(c) ==
    /\ calls[c].pc = "layout"
    /\ calls[c].closeCalls < MaxCloseCalls
    /\ RendererCloseCall(c, "layout")
    /\ UNCHANGED seqVars

\* GenerateStyled lays the pages out and returns.
LayoutPages(c) ==
    /\ calls[c].pc = "layout"
    /\ Step(c, [calls[c] EXCEPT !.pc = "done"])
    /\ UNCHANGED <<seqVars, pools, documents, buffers>>

NextConcurrent ==
    \E c \in Calls :
        \/ StartCall(c) \/ InitPool(c) \/ AcquireInstance(c) \/ ReadPDF(c)
        \/ OpenPDF(c) \/ CountPages(c) \/ RenderPageInDPI(c) \/ CopyPixels(c)
        \/ Cleanup(c) \/ AppendImage(c) \/ FinishLoop(c) \/ CloseDocument(c)
        \/ CloseRenderer(c) \/ CloseAgain(c) \/ LayoutPages(c)

SpecConcurrent == Init /\ [][NextConcurrent]_vars

(***************************************************************************)
(* Properties.                                                             *)
(***************************************************************************)
Extracted == pc \in {"GenerateStyled", "GenerateOrPlaceholder", "done"}
Generated == pc \in {"GenerateOrPlaceholder", "done"}
Succeeded == Generated /\ gerr.nil
HasBounds(i, w, h) == ~i.nil /\ i.w = w /\ i.h = h /\ DOMAIN i.px = Points(w, h)
Labels == {L_PasswordProtected, L_UnsupportedFormat, L_FileNotFound, L_Error}
SupportedExts == {S_pdf, S_tif, S_tiff, S_jpg, S_jpeg, S_png}

\* C1: a composite-style thumbnail of an n-page set at width w is
\* pageHeight(w) high and n*w wide for n <= 4, 5*w wide for n > 4, whatever
\* the sizes of the pages.
C1_CompositeDimensions ==
    (Succeeded /\ style = StyleComposite) =>
        LET n == Len(pages.s)
        IN  /\ n >= 1
            /\ HasBounds(img, IF n <= 4 THEN n * width ELSE 5 * width, pageHeight(width))

C1_Witness ==
    /\ pc = "done" /\ gerr.nil /\ style = StyleComposite
    /\ Len(pages.s) > 4 /\ width = 6
    /\ pages.s[1].w = 0 /\ pages.s[2].h > pages.s[2].w /\ pages.s[3].w > pages.s[3].h
    /\ img.w = 30 /\ img.h = 8

\* C2: a uniform-style thumbnail is exactly w x uniformHeight(w), for any
\* first page (also one with no pixels) and any page count, badge or not.
C2_UniformDimensions ==
    (Succeeded /\ style = StyleUniform) =>
        HasBounds(img, width, uniformHeight(width))

C2_Witness ==
    /\ pc = "done" /\ gerr.nil /\ style = StyleUniform
    /\ Len(pages.s) > 1 /\ pages.s[1].w = 0 /\ width = 6
    /\ img.w = 6 /\ img.h = 9

\* C3: GenerateOrPlaceholder returns an image whatever the outcome of the
\* pipeline: on success the image Generate produced, on failure a
\* placeholder.
C3_NeverNil ==
    (api = "GenerateOrPlaceholder" /\ pc = "done") =>
        /\ ~ret.nil
        /\ gerr.nil => (ret = img /\ ~img.nil)
        /\ ~gerr.nil => (\E l \in Labels : ret = ErrorPlaceholder(l, width))

C3_Witness ==
    /\ api = "GenerateOrPlaceholder" /\ pc = "done"
    /\ failedAt = 1 /\ ~gerr.nil /\ ~ret.nil /\ img.nil /\ width > 0

\* C4 as stated: the placeholder for width w has the dimensions of every
\* successful call for the same width and style.
C4_PlaceholderMatchesEverySuccess ==
    Succeeded =>
        \A l \in Labels :
            /\ ErrorPlaceholder(l, width).w = img.w
            /\ ErrorPlaceholder(l, width).h = img.h

\* C4 amended: the placeholder for width w is exactly w x pageHeight(w): the
\* height of every successful composite-style call for that width, and the
\* full dimensions of a successful composite-style call on a one-page
\* document.
C4_PlaceholderDimensions ==
    /\ (api = "GenerateOrPlaceholder" /\ pc = "done" /\ ~gerr.nil) =>
            HasBounds(ret, width, pageHeight(width))
    /\ (Succeeded /\ style = StyleComposite) =>
            \A l \in Labels :
                /\ ErrorPlaceholder(l, width).h = img.h
                /\ Len(pages.s) = 1 => ErrorPlaceholder(l, width).w = img.w

C4_Witness ==
    /\ api = "GenerateOrPlaceholder" /\ pc = "done" /\ ~gerr.nil
    /\ width = 6 /\ ret.w = 6 /\ ret.h = 8

\* C5: when page extraction returns without error the page list has at
\* least one page, in every format branch; a decode that yields no page is
\* a failure.
C5_NonEmptyOnSuccess ==
    /\ (Extracted /\ err.nil) => (~pages.nil /\ Len(pages.s) >= 1)
    /\ (Extracted /\ ~err.nil) => pages.nil
    /\ (pc = "renderPDFPages" /\ rerr.nil /\ Len(rpages.s) = 0) => ~pdfPagesResult(rpages, rerr).err.nil

C5_Witness ==
    /\ pc = "done" /\ doc = "closed" /\ numPages = 0 /\ rerr.nil
    /\ err.msg = S_pdfNoPages /\ img.nil

\* C6: in the PDF path a pool that was initialised is closed when
\* extraction returns, and a document that was opened is closed when
\* RenderPDF returns, on every exit path.
C6_ResourcesReleased ==
    /\ Extracted => (pool # "open" /\ doc # "open")
    /\ pc = "renderPDFPages" => doc # "open"

C6_Witness ==
    /\ pc = "done" /\ pool = "closed" /\ doc = "closed" /\ failedAt = 2

C6_WitnessNoInstance ==
    /\ pc = "done" /\ pool = "closed" /\ instance = "none" /\ doc = "none"

\* C7 as stated: for an unsupported extension the error carries the raw
\* extension of the path.
C7_CarriesRawExtension ==
    (Generated /\ ToLower(Ext(filePath)) \notin SupportedExts) =>
        gerr.msg = S_unsupported \o S_colon \o Ext(filePath)

\* C7 amended: for a path whose lowercased extension is not supported,
\* GenerateStyled returns no image and an unsupported-format error that
\* carries the lowercased extension of the path, and no decoder is invoked.
C7_UnsupportedFormat ==
    (Generated /\ ToLower(Ext(filePath)) \notin SupportedExts) =>
        /\ img.nil
        /\ ~gerr.nil
        /\ gerr.msg = S_unsupported \o S_colon \o ToLower(Ext(filePath))
        /\ collaborators = {}
        /\ pool = "none"

C7_Witness ==
    /\ pc = "done" /\ filePath = <<"i",".","X","y","Z">> /\ img.nil
    /\ gerr.msg = S_unsupported \o S_colon \o <<".","x","y","z">>

\* C8: when rasterizing page k fails, RenderPDF returns an error and no
\* page list, no later page is rendered, and Generate returns an error and
\* no thumbnail.
C8_RenderFailureAborts ==
    failedAt >= 0 =>
        /\ pc \notin {"RenderLoop", "ReadFile", "OpenDocument", "GetPageCount"}
        /\ rpages.nil /\ ~rerr.nil
        /\ renders = failedAt + 1
        /\ Extracted => (pages.nil /\ ~err.nil)
        /\ Generated => (img.nil /\ ~gerr.nil)

C8_Witness ==
    /\ pc = "done" /\ failedAt = 2 /\ numPages = 5 /\ Len(images) = 2
    /\ img.nil /\ ~gerr.nil

\* C9: classifyError gives every text the label and colour of the first
\* rule it matches: "invalid password", then "unsupported file format",
\* then "no such file" or "not exist", otherwise "Error".
C9_ClassifyPriority ==
    fn = "classifyError" =>
        LET pw == Contains(arg, S_invalidPassword)
            un == Contains(arg, S_unsupported)
            nf == Contains(arg, S_noSuchFile) \/ Contains(arg, S_notExist)
        IN  /\ pw => out = [label |-> L_PasswordProtected, bg |-> RGBA(200, 150, 0, 255)]
            /\ (~pw /\ un) => out = [label |-> L_UnsupportedFormat, bg |-> RGBA(130, 130, 130, 255)]
            /\ (~pw /\ ~un /\ nf) => out = [label |-> L_FileNotFound, bg |-> RGBA(80, 80, 80, 255)]
            /\ (~pw /\ ~un /\ ~nf) => out = [label |-> L_Error, bg |-> RGBA(180, 40, 40, 255)]

C9_Witness ==
    /\ fn = "classifyError"
    /\ arg = S_enoent \o S_unsupported \o S_invalidPassword
    /\ out.label = L_PasswordProtected

C9_WitnessSecondRule ==
    /\ fn = "classifyError"
    /\ arg = <<"n","o","t"," ">> \o <<"e","x","i","s","t">> \o S_unsupported
    /\ out.label = L_UnsupportedFormat

\* C10: the page fitter returns a bitmap of exactly w x pageHeight(w) for
\* every source and width; a source with no pixels gives a blank canvas of
\* that size.
C10_FitDimensions ==
    fn = "resizeToPage" =>
        /\ HasBounds(out, arg[2], pageHeight(arg[2]))
        /\ (arg[1].w = 0 \/ arg[1].h = 0) => \A p \in DOMAIN out.px : out.px[p] = Transparent

C10_Witness ==
    /\ fn = "resizeToPage"
    /\ arg[1].w = 4 /\ arg[1].h = 1 /\ arg[2] = 3
    /\ scaledHeight(arg[1].w, arg[1].h, arg[2]) = 0
    /\ out.w = 3 /\ out.h = 4

C10_WitnessZero ==
    /\ fn = "resizeToPage"
    /\ arg[1].w = 2 /\ arg[1].h = 0 /\ arg[2] = 6
    /\ out.w = 6 /\ out.h = 8

\* C11: the page fitter's output is the top pageHeight(w) rows of the
\* scaled image when the scaled image is at least that tall; otherwise the
\* scaled image occupies rows 0..scaledH-1 and every row below it is light
\* grey (240, 240, 240).
C11_PaddingIsLightGrey ==
    (fn = "resizeToPage" /\ arg[1].w > 0 /\ arg[1].h > 0) =>
        LET scaledH == scaledHeight(arg[1].w, arg[1].h, arg[2])
        IN  \A p \in DOMAIN out.px :
                IF p[2] < scaledH
                THEN out.px[p] = Sample(arg[1].id, p[1], p[2])
                ELSE out.px[p] = RGBA(240, 240, 240, 255)

\* The detector's input and what it holds, read pixel by pixel.
Checked == fn = "CheckPageCorruption"
ArgW == arg.rect.x1 - arg.rect.x0
ArgH == arg.rect.y1 - arg.rect.y0
SampledColumns == {cx \in 0..(ArgW - 1) : cx % xStepOf(ArgW) = 0}
\* Rows, among every step-th row from the top, in which more than 10% of
\* the sampled pixels are not opaque.
NonOpaqueRowsAmong(step) ==
    {cy \in 0..(ArgH - 1) :
        /\ cy % step = 0
        /\ 10 * Cardinality({cx \in SampledColumns : AlphaAt(arg, cx, cy) # 255})
              > Cardinality(SampledColumns)}
RowsAmong(step) == {cy \in 0..(ArgH - 1) : cy % step = 0}

\* C12: a bitmap with non-zero dimensions in which every pixel is opaque
\* is reported not corrupt with both fractions 0, whether it is a packed
\* RGBA bitmap or any other image type.
C12_OpaqueIsClean ==
    (/\ Checked /\ ArgW > 0 /\ ArgH > 0
     /\ \A cx \in 0..(ArgW - 1), cy \in 0..(ArgH - 1) : AlphaAt(arg, cx, cy) = 255)
        => /\ out.Corrupt = FALSE
           /\ out.CorruptRowFraction[1] = 0
           /\ out.NonOpaqueRowFraction[1] = 0

C12_Witness ==
    /\ Checked /\ arg.kind = "NRGBA"
    /\ ArgW = 200 /\ ArgH = 20 /\ arg.rect.x0 = 2
    /\ arg.rows = Pattern(0, 0, 1)
    /\ out.Corrupt = FALSE /\ out.CorruptRowFraction[1] = 0

C12_WitnessPacked ==
    /\ Checked /\ arg.kind = "RGBA" /\ arg.stride > 4 * ArgW
    /\ ArgW = 10 /\ ArgH = 1000
    /\ arg.rows = Pattern(0, 0, 1)
    /\ out.Corrupt = FALSE /\ out.NonOpaqueRowFraction[1] = 0

\* C13 as stated: if at least 20% of all the rows of a bitmap have more
\* than 10% non-opaque pixels among the sampled pixels of the row, the
\* bitmap is reported corrupt with a corrupt-row fraction of at least 0.10,
\* whatever its size and wherever those rows are.
C13_AnyRowsAnySize ==
    (Checked /\ ArgW > 0 /\ ArgH > 0 /\ 5 * Cardinality(NonOpaqueRowsAmong(1)) >= ArgH)
        => /\ out.Corrupt = TRUE
           /\ 10 * out.CorruptRowFraction[1] >= out.CorruptRowFraction[2]

\* C13, amended: if at least 20% of the rows the detector samples (every
\* row up to 999 rows, every (h div 500)-th row from the top above that)
\* have more than 10% non-opaque pixels among the sampled pixels of the
\* row, the bitmap is reported corrupt with a corrupt-row fraction of at
\* least 0.10, wherever those rows are.
C13_SampledRows ==
    (/\ Checked /\ ArgW > 0 /\ ArgH > 0
     /\ 5 * Cardinality(NonOpaqueRowsAmong(rowStepOf(ArgH))) >= Cardinality(RowsAmong(rowStepOf(ArgH))))
        => /\ out.Corrupt = TRUE
           /\ 10 * out.CorruptRowFraction[1] >= out.CorruptRowFraction[2]

C13_Witness ==
    /\ Checked /\ ArgH = 1000 /\ ArgW = 10
    /\ arg.rows = Pattern(800, 1000, 1) /\ arg.cols = Pattern(0, 2, 1)
    /\ out.Corrupt = TRUE /\ out.CorruptRowFraction = <<1, 5>>

C19_WitnessRow ==
    /\ Checked /\ ArgW = 200 /\ ArgH = 20
    /\ arg.rows = Pattern(0, 20, 1) /\ arg.cols = Pattern(0, 20, 1)
    /\ out.Corrupt = FALSE /\ out.CorruptRowFraction = <<0, 1>>

\* C20: the packed-RGBA path and the generic path return the same verdict,
\* reason and fractions for bitmaps with the same bounds and alpha values,
\* also when the bounds do not start at (0, 0).
C20_PathsAgree ==
    Checked =>
        /\ out = checkGenericCorruption([arg EXCEPT !.kind = "NRGBA"])
        /\ out = CheckPageCorruption([arg EXCEPT !.kind = "RGBA"])

C20_Witness ==
    /\ Checked /\ arg.kind = "RGBA" /\ arg.rect.x0 = 2 /\ arg.rect.y0 = 3
    /\ arg.stride > 4 * ArgW
    /\ ArgW = 10 /\ ArgH = 1000
    /\ arg.rows = Pattern(0, 51, 1) /\ arg.cols = Pattern(1, 10, 2)
    /\ out.Corrupt = TRUE /\ out.CorruptRowFraction = <<13, 250>>

\* C14 as stated: the dimensions of a successful GenerateStyled result
\* depend on the width and the style only: w x pageHeight(w) for Composite,
\* w x uniformHeight(w) for Uniform, whatever the page count.
C14_WidthAndStyleOnly ==
    Succeeded =>
        /\ style = StyleComposite => HasBounds(img, width, pageHeight(width))
        /\ style = StyleUniform => HasBounds(img, width, uniformHeight(width))

\* C14, amended: the dimensions depend on the width, the style and, for
\* Composite, the page count n, and on nothing else of the document:
\* (min(n, 4) * w, plus w when n > 4) x pageHeight(w) for Composite,
\* w x uniformHeight(w) for Uniform.
C14_WidthStyleAndPageCount ==
    Succeeded =>
        LET n     == Len(pages.s)
            tiles == IF n > 4 THEN 5 ELSE n
        IN  /\ img.w = (IF style = StyleComposite THEN tiles * width ELSE width)
            /\ img.h = (IF style = StyleComposite THEN pageHeight(width) ELSE uniformHeight(width))
            /\ DOMAIN img.px = Points(img.w, img.h)

C14_Witness ==
    /\ pc = "done" /\ gerr.nil /\ style = StyleComposite
    /\ Len(pages.s) = 2 /\ width = 6
    /\ pages.s[1].w > pages.s[1].h /\ pages.s[2].w < pages.s[2].h
    /\ img.w = 12 /\ img.h = 8

\* C15: DefaultThumbnailPath returns the path without its final extension
\* (the suffix from the last dot of the last path element, nothing when
\* that element has no dot) followed by ".tn_<width>.png"; directories and
\* the dots in their names are kept.
C15_ExtensionReplaced ==
    fn = "DefaultThumbnailPath" =>
        LET path    == arg[1]
            slashes == {i \in 1..Len(path) : path[i] = "/"}
            element == IF slashes = {} THEN 1
                       ELSE 1 + CHOOSE i \in slashes : \A j \in slashes : j <= i
            dots    == {i \in element..Len(path) : path[i] = "."}
            kept    == IF dots = {} THEN Len(path)
                       ELSE (CHOOSE i \in dots : \A j \in dots : j <= i) - 1
        IN  /\ Len(out) >= kept
            /\ SubSeq(out, 1, kept) = SubSeq(path, 1, kept)
            /\ SubSeq(out, kept + 1, Len(out))
                   = <<".","t","n","_">> \o Itoa(arg[2]) \o <<".","p","n","g">>
            /\ arg = <<<<"d","o","c",".","p","d","f">>, 64>> => out = <<"d","o","c",".","t","n","_","6","4",".","p","n","g">>
            /\ arg = <<<<"/","p","a","t","h","/","t","o","/","f","i","l","e",".","t","i","f","f">>, 128>> => out = <<"/","p","a","t","h","/","t","o","/","f","i","l","e",".","t","n","_","1","2","8",".","p","n","g">>

C15_Witness ==
    /\ fn = "DefaultThumbnailPath"
    /\ arg = <<<<"/","p","a","t","h","/","t","o","/","f","i","l","e",".","t","i","f","f">>, 128>>
    /\ out = <<"/","p","a","t","h","/","t","o","/","f","i","l","e",".","t","n","_","1","2","8",".","p","n","g">>

C15_WitnessDirectoryDot ==
    /\ fn = "DefaultThumbnailPath"
    /\ arg = <<<<"a",".","b","/","c">>, 7>>
    /\ out = <<"a",".","b","/","c",".","t","n","_","7",".","p","n","g">>

\* C16: pageHeight(w) is w * sqrt(2) rounded to the nearest integer and
\* uniformHeight(w) is 1.42 * w rounded to the nearest integer (halves
\* upwards), both never decrease when w grows, and they take the documented
\* values at 50, 64, 100 and 128.
C16_HeightsRoundAndGrow ==
    fn = "heights" =>
        LET w  == arg
            ph == out[1]
            uh == out[2]
        IN  \* 1.414213 < sqrt(2) < 1.414214
            /\ (w * 1414213 + 500000) \div 1000000 <= ph
            /\ ph <= (w * 1414214 + 500000) \div 1000000
            /\ 100 * uh - 50 <= 142 * w /\ 142 * w < 100 * uh + 50
            /\ ph <= pageHeight(w + 1) /\ uh <= uniformHeight(w + 1)
            /\ w = 50 => ph = 71
            /\ w = 64 => (ph = 91 /\ uh = 91)
            /\ w = 100 => uh = 142
            /\ w = 128 => uh = 182

C16_Witness ==
    /\ fn = "heights" /\ arg = 128
    /\ out = <<181, 182>>

C16_WitnessHalf ==
    /\ fn = "heights" /\ arg = 25
    /\ out = <<35, 36>>

\* Positions of a call at which it uses its pool and instance, its
\* document, and the rasterizer's bitmap of the current page.
UsesPool == {"ReadFile", "OpenDocument", "GetPageCount", "RenderLoop", "Copy",
             "Cleanup", "Append", "CloseDocument", "Close"}
UsesDocument == {"GetPageCount", "RenderLoop", "Copy", "Cleanup", "Append", "CloseDocument"}
UsesPageRender == {"Copy", "Cleanup"}
\* A stored page is usable while its pixels are in Go memory or in a
\* rasterizer bitmap that has not been freed.
Usable(image) == image.mem = "go" \/ (image.mem = "rasterizer" /\ buffers[image.buf].state = "live")

\* C17: in every interleaving of two concurrent PDF extractions each call
\* has a pool, a document and page bitmaps of its own, and whatever the
\* other call has cleaned up or closed, the pool and document a call is
\* using are open, the page bitmap it is copying is live and every page it
\* has stored is usable.
C17_CallsShareNothing ==
    \A c \in Calls :
        LET s == calls[c]
        IN  /\ s.pc \in UsesPool => (s.pool # 0 /\ pools[s.pool] = "open")
            /\ s.pc \in UsesDocument =>
                   (documents[s.doc].state = "open" /\ documents[s.doc].pool = s.pool)
            /\ s.pc \in UsesPageRender =>
                   (buffers[s.pageRender].state = "live" /\ buffers[s.pageRender].pool = s.pool)
            /\ \A i \in DOMAIN s.images : Usable(s.images[i])
            /\ \A d \in Calls \ {c} :
                   /\ s.pool # 0 => calls[d].pool # s.pool
                   /\ s.pc \in UsesDocument => calls[d].doc # s.doc
                   /\ s.pc \in UsesPageRender => calls[d].pageRender # s.pageRender
                   /\ \A i \in DOMAIN s.images, j \in DOMAIN calls[d].images :
                          s.images[i].buf # calls[d].images[j].buf

\* One call has closed its document and its pool and returned with its
\* pages while the other is in the middle of its page loop.
C17_Witness ==
    /\ calls[1].pc = "done" /\ calls[1].result = "ok" /\ Len(calls[1].images) = 2
    /\ calls[2].pc = "Cleanup" /\ Len(calls[2].images) = 1
    /\ pools[calls[2].pool] = "open"
    /\ \E p \in DOMAIN pools : pools[p] = "closed"

\* C18: when Cleanup of a page is about to be invoked, and afterwards, the
\* image RenderPDF holds for that page is a copy of the rasterizer's
\* bitmap in Go memory; every stored page is such a copy, so no stored page
\* refers to a rasterizer bitmap, freed or not.
C18_CopyBeforeCleanup ==
    \A c \in Calls :
        LET s == calls[c]
        IN  /\ s.pc \in {"Cleanup", "Append"} =>
                   (s.img.mem = "go" /\ s.img.buf = s.pageRender)
            /\ s.pc = "Append" => buffers[s.pageRender].state = "freed"
            /\ \A i \in DOMAIN s.images :
                   /\ s.images[i].mem = "go"
                   /\ s.images[i].buf \in DOMAIN buffers
                   /\ buffers[s.images[i].buf].state = "freed"

C18_Witness ==
    /\ calls[1].pc = "Append" /\ Len(calls[1].images) = 1
    /\ calls[1].img.mem = "go" /\ calls[1].img.buf = calls[1].pageRender
    /\ buffers[calls[1].pageRender].state = "freed"
    /\ buffers[calls[1].images[1].buf].state = "freed"

C21_WitnessColumns ==
    /\ fn = "sampling" /\ arg.y1 - arg.y0 = 199
    /\ Cardinality(out[2]) = 199

\* Rows of a fitted canvas that hold pixels of the scaled source.
ImageRows(canvas) == {y \in 0..(canvas.h - 1) : canvas.px[<<0, y>>].tag = "scaled"}
\* a / b rounded to the nearest integer, halves upwards (a >= 0, b > 0).
RoundDiv(a, b) == (2 * a + b) \div (2 * b)

\* C22: the page fitter, and the scaling step of uniformPage, scale a
\* source of srcW x srcH to width w with height round(srcH * w / srcW),
\* rounded to the nearest integer: the canvas holds that many rows of the
\* scaled source, or is full of them when that height reaches the canvas
\* height.
C22_ScaledHeightRounded ==
    /\ (fn = "resizeToPage" /\ arg[1].w > 0 /\ arg[1].h > 0 /\ arg[2] > 0) =>
           LET rounded == RoundDiv(arg[1].h * arg[2], arg[1].w)
           IN  Cardinality(ImageRows(out))
                  = (IF rounded >= out.h THEN out.h ELSE rounded)
    /\ (fn = "uniformPage" /\ arg[1].w > 0 /\ arg[1].h > 0 /\ arg[3] > 0 /\ arg[2] = 1) =>
           LET rounded == RoundDiv(arg[1].h * arg[3], arg[1].w)
           IN  Cardinality(ImageRows(out.image))
                  = (IF rounded >= out.image.h THEN out.image.h ELSE rounded)

\* C26: in uniform style the badge is drawn exactly when the set has more
\* than one page; its label is the decimal count for 2 to 9 pages and "9+"
\* above; with one page the canvas is the fitted first page, every pixel a
\* pixel of the scaled page or of the background.
C26_BadgeAndLabel ==
    fn = "uniformPage" =>
        LET count  == arg[2]
            w      == arg[3]
            px     == out.image.px
            badge  == {p \in DOMAIN px : px[p].tag # "scaled" /\ px[p] # RGBA(240, 240, 240, 255)}
            digits == <<"1", "2", "3", "4", "5", "6", "7", "8", "9">>
        IN  /\ count = 1 => (badge = {} /\ out.label = <<>>)
            /\ (count > 1 /\ count <= 9) => out.label = <<digits[count]>>
            /\ count > 9 => out.label = <<"9", "+">>
            /\ (count > 1 /\ w >= 3) => badge # {}
            /\ (count > 1 /\ w >= 3 /\ arg[1].w = 0) =>
                   \E p \in badge : px[p] = RGBA(72, 72, 72, 255)

C26_Witness ==
    /\ fn = "uniformPage" /\ arg[2] = 10 /\ arg[3] = 6
    /\ arg[1].w = 2 /\ arg[1].h = 3
    /\ out.label = <<"9", "+">>
    /\ \E p \in DOMAIN out.image.px : out.image.px[p].tag = "dark"

C26_WitnessSinglePage ==
    /\ fn = "uniformPage" /\ arg[2] = 1 /\ arg[3] = 6
    /\ arg[1].w = 4 /\ arg[1].h = 1
    /\ out.label = <<>>
    /\ out.image.px[<<5, 0>>].tag = "scaled"
    /\ out.image.px[<<5, 8>>] = RGBA(240, 240, 240, 255)

\* C23 as stated: a source of s x pageHeight(s) fitted to any width w is
\* neither cropped nor padded: the scaled height is pageHeight(w) and the
\* output is the plain proportional scale.
C23_CanonicalSourceExact ==
    (/\ fn = "resizeToPage" /\ arg[1].w > 0 /\ arg[2] > 0
     /\ arg[1].h = pageHeight(arg[1].w)) =>
        /\ (arg[1].h * arg[2]) \div arg[1].w = pageHeight(arg[2])
        /\ out = Scale(arg[1], arg[2], pageHeight(arg[2]))

\* C23, amended: a source of s x pageHeight(s) fitted to the same width
\* w = s is neither cropped nor padded and the output is the plain scale;
\* for another width the scaled height floor(pageHeight(s) * w / s) is
\* within w / (2 s) + 2 rows of pageHeight(w), and that many rows are
\* cropped or padded.
C23_CanonicalSourceSameWidth ==
    (/\ fn = "resizeToPage" /\ arg[1].w > 0 /\ arg[2] > 0
     /\ arg[1].h = pageHeight(arg[1].w)) =>
        LET s       == arg[1].w
            w       == arg[2]
            scaledH == (arg[1].h * w) \div s
            diff    == IF scaledH >= pageHeight(w) THEN scaledH - pageHeight(w)
                       ELSE pageHeight(w) - scaledH
        IN  /\ w = s => out = Scale(arg[1], w, pageHeight(w))
            /\ 2 * s * diff <= w + 4 * s
            /\ Cardinality(ImageRows(out)) = (IF scaledH >= out.h THEN out.h ELSE scaledH)

C23_Witness ==
    /\ fn = "resizeToPage" /\ arg[1].w = 3 /\ arg[1].h = 4 /\ arg[2] = 3
    /\ out.h = 4 /\ Cardinality(ImageRows(out)) = 4

\* A 1 x 1 source is canonical (pageHeight(1) = 1); at width 6 it scales
\* to 6 rows and 2 rows of the 8 are padded.
C23_WitnessPadded ==
    /\ fn = "resizeToPage" /\ arg[1].w = 1 /\ arg[1].h = 1 /\ arg[2] = 6
    /\ out.h = 8 /\ Cardinality(ImageRows(out)) = 6

\* C24: in a composite thumbnail at width w, the tile of page i (counted
\* from 0, for every page shown) occupies columns [i*w, (i+1)*w) and holds
\* exactly the pixels of resizeToPage(page i, w): tiles neither overlap nor
\* are overwritten by a later tile or by the overflow indicator.
C24_TilesAreFittedPages ==
    (Succeeded /\ style = StyleComposite) =>
        LET n     == Len(pages.s)
            shown == IF n > 4 THEN 4 ELSE n
        IN  \A i \in 0..(shown - 1) :
                LET tile == resizeToPage(pages.s[i + 1], width)
                IN  /\ tile.w = width /\ tile.h = img.h
                    /\ \A p \in Points(width, img.h) :
                           img.px[<<i * width + p[1], p[2]>>] = tile.px[p]

C24_Witness ==
    /\ pc = "done" /\ gerr.nil /\ style = StyleComposite
    /\ Len(pages.s) = 5 /\ width = 6
    /\ pages.s[3].w < pages.s[3].h /\ pages.s[4].w > pages.s[4].h
    /\ img.px[<<17, 7>>] = Sample(pages.s[3].id, 5, 7)
    /\ img.px[<<18, 1>>] = Sample(pages.s[4].id, 0, 1)
    /\ img.px[<<23, 7>>] = White

\* The pixels of the "+" glyph in the overflow tile, in tile coordinates.
GlyphPixels ==
    {p \in Points(width, img.h) :
        img.px[<<4 * width + p[1], p[2]>>] = RGBA(100, 100, 100, 255)}

\* C25: the "+" glyph of the overflow indicator is centred in the w-wide,
\* pageHeight(w)-high tile, its bars are max(2, tileSize/8) pixels thick,
\* and every glyph pixel lies inside the tile.
C25_PlusCentredInTile ==
    (Succeeded /\ style = StyleComposite /\ Len(pages.s) > 4 /\ GlyphPixels # {}) =>
        LET xs    == {p[1] : p \in GlyphPixels}
            ys    == {p[2] : p \in GlyphPixels}
            minX  == CHOOSE x \in xs : \A z \in xs : x <= z
            maxX  == CHOOSE x \in xs : \A z \in xs : z <= x
            minY  == CHOOSE y \in ys : \A z \in ys : y <= z
            maxY  == CHOOSE y \in ys : \A z \in ys : z <= y
            left  == minX
            right == width - 1 - maxX
            top   == minY
            below == img.h - 1 - maxY
            thick == Max(2, img.h \div 8)
        IN  /\ left - right \in {-1, 0, 1}
            /\ top - below \in {-1, 0, 1}
            /\ Cardinality({p \in GlyphPixels : p[2] = minY}) = thick
            /\ Cardinality({p \in GlyphPixels : p[1] = minX}) = thick

\* C27: for a set of more than four pages the composite thumbnail depends
\* only on the first four pages and the width: any other pages after the
\* fourth, however many, give the same image.
C27_OnlyFirstFourPages ==
    (Succeeded /\ style = StyleComposite /\ Len(pages.s) > 4) =>
        LET first == SubSeq(pages.s, 1, 4)
            other == {<<Page(7, 1, 3)>>, <<Page(8, 3, 1), Page(9, 0, 2)>>}
        IN  /\ HasBounds(img, 5 * width, pageHeight(width))
            /\ \A tail \in other : img = compositePages(first \o tail, width)

C27_Witness ==
    /\ pc = "done" /\ gerr.nil /\ style = StyleComposite
    /\ Len(pages.s) = 5 /\ width = 6 /\ pages.s[5].w = 1
    /\ img.w = 30
    /\ img.px[<<0, 0>>] = Sample(pages.s[1].id, 0, 0)
    /\ img.px[<<28, 3>>] = RGBA(100, 100, 100, 255)

\* C28: when thumbnail generation fails, GenerateStyledAndSave and
\* GenerateAndSave return the generation error unchanged and have no effect
\* on the filesystem: no directory is created, no file is created or
\* truncated.
C28_FailureLeavesNoTrace ==
    api \in SaveApis =>
        /\ ~gerr.nil => fs = InitFs
        /\ (pc = "done" /\ ~gerr.nil) => serr = gerr
        /\ fs # InitFs => pc \in {"Create", "Encode", "done"}

C28_Witness ==
    /\ api = "GenerateAndSave" /\ pc = "done"
    /\ ~gerr.nil /\ serr = gerr /\ Contains(serr.msg, S_pdfNoPages)
    /\ Dir(outputPath) \notin fs.dirs /\ fs = InitFs

\* A successful generation does reach the filesystem: the directories are
\* made and the older thumbnail is replaced.
C28_WitnessSaved ==
    /\ api = "GenerateStyledAndSave" /\ pc = "done" /\ gerr.nil /\ serr.nil
    /\ <<outputPath, Bytes("png", img)>> \in fs.files /\ fs # InitFs

InstanceOps == {"OpenDocument", "GetPageCount", "RenderLoop", "Copy", "Cleanup",
                "Append", "CloseDocument"}

\* C29: in any PDF extraction each page's Cleanup is called before the next
\* page is rendered, the document is closed after the last render or the
\* first failure and before the pool is closed, after the pool is closed no
\* operation is issued on the instance, and Close is idempotent: the pool
\* is closed exactly once even if Close is called again.
C29_ReleaseOrder ==
    \A c \in Calls :
        LET s == calls[c]
            mine == {b \in DOMAIN buffers : buffers[b].pool = s.pool}
        IN  /\ s.pc = "RenderLoop" => \A b \in mine : buffers[b].state = "freed"
            /\ s.pc \in InstanceOps =>
                   /\ pools[s.pool] = "open"
                   /\ Cardinality({b \in mine : buffers[b].state = "live"}) <= 1
            /\ s.pc \in {"GetPageCount", "RenderLoop", "Copy", "Cleanup", "Append"} =>
                   documents[s.doc].state = "open"
            /\ s.pc = "Close" =>
                   /\ pools[s.pool] = "open"
                   /\ s.doc # 0 => documents[s.doc].state = "closed"
                   /\ \A b \in mine : buffers[b].state = "freed"
            /\ s.poolCloses <= 1
            /\ s.pc = "layout" => (s.poolCloses = 1 /\ s.pool = 0 /\ s.closeCalls >= 1)
            /\ s.result = "ok" => s.pageIndex = s.numPages

C29_Witness ==
    /\ calls[1].pc = "layout" /\ calls[1].closeCalls = 2 /\ calls[1].poolCloses = 1
    /\ Len(calls[1].images) = 2
    /\ calls[2].pc = "Cleanup" /\ calls[2].pageIndex = 1
    /\ Len(pools) = 2 /\ pools[calls[2].pool] = "open"

\* The first failure: the document is closed, then the pool, once.
C29_WitnessFailure ==
    /\ calls[1].pc = "layout" /\ calls[1].result = "error" /\ calls[1].doc # 0
    /\ calls[1].pageIndex = 1 /\ calls[1].numPages = 2
    /\ calls[1].closeCalls = 2 /\ calls[1].poolCloses = 1

\* C30: every page bitmap RenderPDF returns has alpha 255 in every pixel,
\* whatever alpha bytes the rasterizer produced; so CheckPageCorruption on
\* any non-empty page of the PDF path reports corrupt = false with both
\* fractions 0.
C30_ReturnedPagesOpaque ==
    fn = "RenderPDF" =>
        LET w == out.page.rect.x1 - out.page.rect.x0
            h == out.page.rect.y1 - out.page.rect.y0
        IN  /\ out.page.rect = arg.rect /\ out.page.stride = arg.stride
            /\ \A cx \in 0..(w - 1), cy \in 0..(h - 1) :
                   Pix(out.page, cy * out.page.stride + cx * 4 + 3) = 255
            /\ (w > 0 /\ h > 0) =>
                   /\ out.check.Corrupt = FALSE
                   /\ out.check.CorruptRowFraction = <<0, 1>>
                   /\ out.check.NonOpaqueRowFraction = <<0, 1>>

C30_Witness ==
    /\ fn = "RenderPDF"
    /\ arg.rect = Rect(2, 3, 12, 1003) /\ arg.stride = 44
    /\ arg.rows = Pattern(0, 1000, 1) /\ arg.cols = Pattern(0, 10, 1)
    /\ CheckPageCorruption(arg).Corrupt
    /\ ~out.check.Corrupt /\ out.check.Reason = ""
=============================================================================
